---- MODULE Spec2Model ----
(***************************************************************************)
(* Notetube-AI: the video processing pipeline (worker, submission routes,  *)
(* completion cache / clone) and the transcript window chunker.            *)
(*                                                                         *)
(* The relational store is modelled at READ COMMITTED: every commit of the *)
(* code is one atomic step. The reads a handler makes before its first     *)
(* write are taken together; its write is a later step, so that other      *)
(* sessions can commit between the check and the act.                      *)
(*                                                                         *)
(* users.videos_analyzed and users.video_limit are the columns added by    *)
(* the migration add_user_video_limits; the worker and the routes read and *)
(* write them on the User rows.                                            *)
(***************************************************************************)
EXTENDS Integers, Sequences, FiniteSets, TLC

\* ------------------------------------------------------------------ bounds
MaxVideos == 2
MaxRuns == 2
MaxReqs == 1
MaxSegs == 2
\* the video_limit of every user row
VideoLimit == 1

Users == {"u1", "u2"}
Guest == "guest"
Sources == {"s1", "s2"}
VideoIds == 1..MaxVideos
RunIds == 1..MaxRuns
ReqIds == 1..MaxReqs

\* language of the captions of a source item (a property of the item)
Lang(s) == IF s = "s1" THEN "en" ELSE "hi"

VARIABLES
    videos,       \* videos table
    transcripts,  \* transcripts table (video_id unique)
    notes,        \* notes table (video_id unique)
    jobs,         \* jobs table; the Job created by run r is jobs[r]
    users,        \* users table: videos_analyzed, video_limit
    guestUsed,    \* a guest_usage row exists for the guest
    redis,        \* raw-fetch cache: time to live of each key, 0 when absent
    runs,         \* RQ tasks and the position of the worker in each
    reqs,         \* HTTP requests in flight
    chunkIn,      \* input of chunk_transcript
    chunkOut,     \* output of chunk_transcript
    fnIn,         \* arguments of a call of a transcript_processor function
    fnOut,        \* its return value
    retry         \* locals of one _execute_with_retry call

dbVars == <<videos, transcripts, notes, jobs, users, guestUsed, redis>>
pipeVars == <<videos, transcripts, notes, jobs, users, guestUsed, redis, runs, reqs>>
chunkVars == <<chunkIn, chunkOut>>
callVars == <<fnIn, fnOut>>
fnVars == <<chunkIn, chunkOut, fnIn, fnOut, retry>>
vars == <<videos, transcripts, notes, jobs, users, guestUsed, redis, runs, reqs, chunkIn, chunkOut,
          fnIn, fnOut, retry>>

\* ------------------------------------------------------------ table rows
NoVideo == [status |-> "ABSENT", owner |-> "none", src |-> "none", failure_reason |-> ""]
NoTranscript == [present |-> FALSE, language_code |-> "none", transliterated |-> FALSE]
NoNotes == [present |-> FALSE, chapters |-> FALSE, structured |-> FALSE,
            suggested_prompts |-> FALSE, notes_tokens |-> 0, chapters_tokens |-> 0]
NoJob == [status |-> "NONE", video_id |-> 0, progress |-> 0, error_message |-> "",
          started_at |-> FALSE, completed_at |-> FALSE]
NoRun == [pc |-> "none", video_id |-> 0, user_id |-> "none", src |-> "none",
          err |-> "", ua |-> 0, chapters |-> "idle", structured |-> "idle"]
IdleReq == [pc |-> "idle", owner |-> "none", src |-> "none", vid |-> 0,
            detail |-> "", sawReady |-> FALSE]
NoChunkIn == [segments |-> <<>>, video_duration |-> 0, chunk_duration |-> {}, overlap |-> {}]
NoChunkOut == [done |-> FALSE, chunks |-> <<>>]
NoCall == [fn |-> "none"]
NoReturn == [done |-> FALSE]
NoRetry == [pc |-> "idle", attempt |-> 0, calls |-> 0, slept |-> 0,
            first_error |-> "none", last_error |-> "none", raised |-> "none", result |-> "none"]

VideoExists(v) == videos[v].status \notin {"ABSENT", "DELETED"}
JobExists(r) == jobs[r].status \notin {"NONE", "DELETED"}

\* ------------------------------------------------------------------ Init
InitPipeline ==
    /\ videos = [v \in VideoIds |-> NoVideo]
    /\ transcripts = [v \in VideoIds |-> NoTranscript]
    /\ notes = [v \in VideoIds |-> NoNotes]
    /\ jobs = [r \in RunIds |-> NoJob]
    /\ guestUsed = FALSE
    /\ redis = [k \in {<<"transcript", s>> : s \in Sources} |-> 0]
    /\ runs = [r \in RunIds |-> NoRun]
    /\ reqs = [i \in ReqIds |-> IdleReq]

InitChunkIdle ==
    /\ chunkIn = NoChunkIn
    /\ chunkOut = NoChunkOut

InitCallIdle ==
    /\ fnIn = NoCall
    /\ fnOut = NoReturn

InitRetryIdle == retry = NoRetry

InitUsers == users = [u \in Users |-> [videos_analyzed |-> 0, video_limit |-> VideoLimit]]

Init ==
    /\ InitPipeline
    /\ users = [u \in Users |-> [videos_analyzed |-> 0, video_limit |-> VideoLimit]]
    /\ InitChunkIdle
    /\ InitCallIdle
    /\ InitRetryIdle

\* =========================================================================
\* Worker: process_video_task / _process_video_sync
\* =========================================================================
\* The worker's session is never rolled back by the except clauses. A commit
\* whose flush failed (integrity error, stale row, lost connection) leaves the
\* session refusing every later commit, so the except clause itself raises
\* and the task ends with nothing more written ("crashed"). A SELECT that
\* fails before a connection is obtained leaves the session usable: the
\* except clause then runs normally.
StoreOutcomes == {"ok", "read_fault", "write_fault"}

Step(r, f) == [runs EXCEPT ![r] = f]
Goto(r, pc) == [runs EXCEPT ![r].pc = pc]
\* an exception caught by an except clause of _process_video_sync, which
\* first writes the Job, then the video
Raise(r, msg) == [runs EXCEPT ![r].pc = "h_job", ![r].err = msg, ![r].ua = 0]
\* an exception that leaves the task: RQ marks the task failed
Crash(r) == [runs EXCEPT ![r] = [NoRun EXCEPT !.pc = "crashed",
                                             !.video_id = runs[r].video_id]]

\* process_video_task (lines 79-83) converts its string arguments: UUID(user_id)
\* raises ValueError for the guest's "None", outside any try block. Otherwise
\* _process_video_sync lines 112-120: INSERT the Job (PENDING, progress 0);
\* video_id is a foreign key
process_video_task(r) ==
    /\ runs[r].pc = "queued"
    /\ IF runs[r].user_id = Guest
       THEN /\ runs' = Crash(r)
            /\ jobs' = jobs
       ELSE \E out \in {"ok", "write_fault"} :
            IF out = "write_fault" \/ ~VideoExists(runs[r].video_id)
            THEN /\ runs' = Crash(r)
                 /\ jobs' = jobs
            ELSE /\ jobs' = [jobs EXCEPT ![r] = [status |-> "PENDING",
                                                  video_id |-> runs[r].video_id,
                                                  progress |-> 0, error_message |-> "",
                                                  started_at |-> FALSE, completed_at |-> FALSE]]
                 /\ runs' = Goto(r, "set_processing")
    /\ UNCHANGED <<videos, transcripts, notes, users, guestUsed, redis, reqs, fnVars>>

\* lines 125-128: video.status = PROCESSING when the video row is found
SetProcessing(r) ==
    /\ runs[r].pc = "set_processing"
    /\ LET v == runs[r].video_id IN
       \E out \in StoreOutcomes :
        /\ out = "write_fault" => VideoExists(v)
        /\ runs' = CASE out = "read_fault" -> Raise(r, "unexpected")
                     [] out = "write_fault" -> Crash(r)
                     [] OTHER -> Goto(r, "set_fetching")
        /\ videos' = IF out = "ok" /\ VideoExists(v)
                     THEN [videos EXCEPT ![v].status = "PROCESSING"]
                     ELSE videos
    /\ UNCHANGED <<transcripts, notes, jobs, users, guestUsed, redis, reqs, fnVars>>

\* an UPDATE of the run's Job row and its commit: when the row is gone (cascade
\* delete of the video) the flush raises StaleDataError
JobUpdate(r, fields, next) ==
    \E out \in {"ok", "write_fault"} :
        IF out = "ok" /\ JobExists(r)
        THEN /\ jobs' = [jobs EXCEPT ![r] = fields]
             /\ runs' = Goto(r, next)
        ELSE /\ jobs' = jobs
             /\ runs' = Crash(r)

\* variant: the run goes on to the fetch without recording the stage
SetFetching_unrecorded(r) ==
    /\ runs[r].pc = "set_fetching"
    /\ runs' = Goto(r, "fetch")
    /\ UNCHANGED <<videos, transcripts, notes, jobs, users, guestUsed, redis, reqs, fnVars>>
\* lines 132-135: job FETCHING_TRANSCRIPT, progress 10, started_at
SetFetching(r) ==
    /\ runs[r].pc = "set_fetching"
    /\ JobUpdate(r, [jobs[r] EXCEPT !.status = "FETCHING_TRANSCRIPT",
                                    !.progress = 10, !.started_at = TRUE], "fetch")
    /\ UNCHANGED <<videos, transcripts, notes, users, guestUsed, redis, reqs, fnVars>>

\* lines 141-159: raw-fetch cache lookup, else process_video_url and setex.
\* redis maps a key to the time to live it was stored with, 0 for no entry.
TRANSCRIPT_CACHE_TTL == 86400
\* cache_key = f"transcript:{yt_video_id}"
cache_key(s) == <<"transcript", s>>
\* variant: the lookup finds nothing
cached_data_never(s) == FALSE
\* cached_data = redis_conn.get(cache_key); "if cached_data"
cached_data(s) == redis[cache_key(s)] # 0

FetchTranscript(r) ==
    /\ runs[r].pc = "fetch"
    /\ LET s == runs[r].src IN
       IF cached_data(s)
       THEN /\ runs' = Goto(r, "from_cache")
            /\ redis' = redis
       ELSE \/ /\ redis' = [redis EXCEPT ![cache_key(s)] = TRANSCRIPT_CACHE_TTL]
               /\ runs' = Goto(r, "from_youtube")
            \/ /\ redis' = redis
               /\ runs' = Raise(r, "youtube")
    /\ UNCHANGED <<videos, transcripts, notes, jobs, users, guestUsed, reqs, fnVars>>

\* lines 166-216: the video's title, thumbnail and duration are written when
\* the video row is found, then the Transcript row is upserted (video_id is a
\* foreign key) and the segments are merged into sentences; English captions
\* skip the transliteration step
SaveTranscript(r) ==
    /\ runs[r].pc \in {"from_cache", "from_youtube"}
    /\ LET v == runs[r].video_id
           s == runs[r].src
       IN \E out \in StoreOutcomes :
           IF out = "read_fault"
           THEN /\ runs' = Raise(r, "unexpected")
                /\ transcripts' = transcripts
           ELSE IF out = "write_fault" \/ ~VideoExists(v)
           THEN /\ runs' = Crash(r)
                /\ transcripts' = transcripts
           ELSE /\ transcripts' = [transcripts EXCEPT ![v] =
                       [present |-> TRUE, language_code |-> Lang(s), transliterated |-> FALSE]]
                /\ runs' = Goto(r, IF Lang(s) = "en" THEN "set_generating" ELSE "transform")
    /\ UNCHANGED <<videos, notes, jobs, users, guestUsed, redis, reqs, fnVars>>

\* lines 218-250: transliterate_to_english for captions that are not English
\* (a failed batch keeps its original text), then the UPDATE of the Transcript
\* row when it is found
Transform(r) ==
    /\ runs[r].pc = "transform"
    /\ LET v == runs[r].video_id IN
       \E out \in {"ok", "write_fault"} :
        /\ out = "write_fault" => transcripts[v].present
        /\ runs' = IF out = "ok" THEN Goto(r, "set_generating") ELSE Crash(r)
        /\ transcripts' = IF out = "ok" /\ transcripts[v].present
                          THEN [transcripts EXCEPT ![v].language_code = "en",
                                                   ![v].transliterated = TRUE]
                          ELSE transcripts
    /\ UNCHANGED <<videos, notes, jobs, users, guestUsed, redis, reqs, fnVars>>

\* lines 253-255: job GENERATING_NOTES, progress 40
SetGenerating(r) ==
    /\ runs[r].pc = "set_generating"
    /\ JobUpdate(r, [jobs[r] EXCEPT !.status = "GENERATING_NOTES", !.progress = 40], "generate")
    /\ UNCHANGED <<videos, transcripts, notes, users, guestUsed, redis, reqs, fnVars>>

\* ---- _generate_ai_content_parallel (lines 429-500) ----
\* the as_completed loop re-raises the first failure as AINotesServiceError; the
\* pool's context manager returns control only when both tasks have ended.
\* TRUE when the call returns a result.
\* variant: a join satisfied by one result
JoinReturns_partial(chapters, structured) == chapters = "ok" \/ structured = "ok"
JoinReturns(chapters, structured) == chapters = "ok" /\ structured = "ok"

\* lines 264-269: the two tasks (generate_chapters, generate_structured) run on
\* a pool of two threads and are joined; each ends "ok" or "failed"
GenerateParallel(r) ==
    /\ runs[r].pc = "generate"
    /\ \E c \in {"ok", "failed"}, st \in {"ok", "failed"} :
        runs' = IF JoinReturns(c, st)
                THEN Step(r, [runs[r] EXCEPT !.pc = "save_notes", !.chapters = c,
                                             !.structured = st])
                ELSE Raise(r, "ai")
    /\ UNCHANGED <<dbVars, reqs, fnVars>>

\* the Notes row built at lines 306-326 from the two results and the prompts
NotesRow(chapters, structured, prompts) ==
    [present |-> TRUE, chapters |-> (chapters = "ok"), structured |-> (structured = "ok"),
     suggested_prompts |-> prompts, notes_tokens |-> 1, chapters_tokens |-> 1]

\* lines 283-329: suggested prompts (a failure there is swallowed and leaves
\* none), then INSERT of the Notes row; video_id is unique and a foreign key
SaveNotes(r) ==
    /\ runs[r].pc = "save_notes"
    /\ LET v == runs[r].video_id IN
       \E out \in {"ok", "write_fault"}, prompts \in BOOLEAN :
        IF out = "write_fault" \/ ~VideoExists(v) \/ notes[v].present
        THEN /\ runs' = Crash(r)
             /\ notes' = notes
        ELSE /\ notes' = [notes EXCEPT ![v] =
                            NotesRow(runs[r].chapters, runs[r].structured, prompts)]
             /\ runs' = Step(r, [runs[r] EXCEPT !.pc = "set_completed",
                                               !.chapters = "idle", !.structured = "idle"])
    /\ UNCHANGED <<videos, transcripts, jobs, users, guestUsed, redis, reqs, fnVars>>

\* lines 333-336: job COMPLETED, progress 100, completed_at
SetCompleted(r) ==
    /\ runs[r].pc = "set_completed"
    /\ JobUpdate(r, [jobs[r] EXCEPT !.status = "COMPLETED", !.progress = 100,
                                    !.completed_at = TRUE], "set_ready")
    /\ UNCHANGED <<videos, transcripts, notes, users, guestUsed, redis, reqs, fnVars>>

\* lines 338-342: video READY when the video row is found
SetReady(r) ==
    /\ runs[r].pc = "set_ready"
    /\ LET v == runs[r].video_id IN
       \E out \in StoreOutcomes :
        /\ out = "write_fault" => VideoExists(v)
        /\ runs' = CASE out = "read_fault" -> Raise(r, "unexpected")
                     [] out = "write_fault" -> Crash(r)
                     [] OTHER -> Goto(r, "read_user")
        /\ videos' = IF out = "ok" /\ VideoExists(v)
                     THEN [videos EXCEPT ![v].status = "READY"]
                     ELSE videos
    /\ UNCHANGED <<transcripts, notes, jobs, users, guestUsed, redis, reqs, fnVars>>

\* line 345: SELECT of the user row into the worker's session
ReadUser(r) ==
    /\ runs[r].pc = "read_user"
    /\ \E out \in {"ok", "read_fault"} :
        runs' = IF out = "ok"
                THEN Step(r, [runs[r] EXCEPT !.pc = "write_user",
                                             !.ua = users[runs[r].user_id].videos_analyzed])
                ELSE Raise(r, "unexpected")
    /\ UNCHANGED <<dbVars, reqs, fnVars>>

\* the record of a task that returned success
Finished(r) == [NoRun EXCEPT !.pc = "done_ok", !.video_id = runs[r].video_id,
                             !.user_id = runs[r].user_id]

\* lines 347-367: `user.videos_analyzed += 1` writes the loaded value plus one
\* (UPDATE users SET videos_analyzed = <n + 1>), commit, return success
WriteUser(r) ==
    /\ runs[r].pc = "write_user"
    /\ LET u == runs[r].user_id IN
       \E out \in {"ok", "write_fault"} :
        IF out = "write_fault"
        THEN /\ runs' = Crash(r)
             /\ users' = users
        ELSE /\ users' = [users EXCEPT ![u].videos_analyzed = runs[r].ua + 1]
             /\ runs' = Step(r, Finished(r))
    /\ UNCHANGED <<videos, transcripts, notes, jobs, guestUsed, redis, reqs, fnVars>>

\* ---- the except clauses (lines 369-426) ----
\* `if job:` job.status = FAILED, error_message, completed_at, commit; a Job
\* row deleted meanwhile makes the flush raise inside the except clause
HandleJob(r) ==
    /\ runs[r].pc = "h_job"
    /\ IF ~JobExists(r)
       THEN /\ runs' = Crash(r)
            /\ jobs' = jobs
       ELSE /\ runs' = Goto(r, "h_video")
            /\ jobs' = [jobs EXCEPT ![r].status = "FAILED",
                                    ![r].error_message = runs[r].err,
                                    ![r].completed_at = TRUE]
    /\ UNCHANGED <<videos, transcripts, notes, users, guestUsed, redis, reqs, fnVars>>

\* the record of a task that returned success False
Failed(r) == [NoRun EXCEPT !.pc = "done_fail", !.video_id = runs[r].video_id]

\* video FAILED with failure_reason when the row is found; return success False
HandleVideo(r) ==
    /\ runs[r].pc = "h_video"
    /\ LET v == runs[r].video_id IN
       videos' = IF VideoExists(v)
                 THEN [videos EXCEPT ![v].status = "FAILED",
                                     ![v].failure_reason = runs[r].err]
                 ELSE videos
    /\ runs' = Step(r, Failed(r))
    /\ UNCHANGED <<transcripts, notes, jobs, users, guestUsed, redis, reqs, fnVars>>

Worker(r) ==
    \/ process_video_task(r)
    \/ SetProcessing(r)
    \/ SetFetching(r)
    \/ FetchTranscript(r)
    \/ SaveTranscript(r)
    \/ Transform(r)
    \/ SetGenerating(r)
    \/ GenerateParallel(r)
    \/ SaveNotes(r)
    \/ SetCompleted(r)
    \/ SetReady(r)
    \/ ReadUser(r)
    \/ WriteUser(r)
    \/ HandleJob(r)
    \/ HandleVideo(r)

\* =========================================================================
\* Routes: POST /api/videos, POST /api/videos/guest, reprocess, delete
\* =========================================================================
FreeVideoIds == {v \in VideoIds : videos[v].status = "ABSENT"}
FreeRunIds == {r \in RunIds : runs[r].pc = "none"}
\* ids are handed out in order
NewVideoId == CHOOSE v \in FreeVideoIds : \A w \in FreeVideoIds : v <= w
NewRunId == CHOOSE r \in FreeRunIds : \A q \in FreeRunIds : r <= q

\* enqueue_video_processing: one RQ task per call
\* variant: a task that addresses the first video of the source
enqueue_video_processing_by_source(r, v, u, s) ==
    [runs EXCEPT ![r] = [NoRun EXCEPT !.pc = "queued",
                                      !.video_id = CHOOSE w \in VideoIds :
                                          /\ (w = v \/ (VideoExists(w) /\ videos[w].src = s))
                                          /\ \A x \in VideoIds :
                                                (x = v \/ (VideoExists(x) /\ videos[x].src = s))
                                                    => w <= x,
                                      !.user_id = u, !.src = s]]
enqueue_video_processing(r, v, u, s) ==
    [runs EXCEPT ![r] = [NoRun EXCEPT !.pc = "queued", !.video_id = v, !.user_id = u, !.src = s]]

\* check_duplicate_video / get_video_by_youtube_id: the rows matched
check_duplicate_video(u, s) ==
    {v \in VideoIds : VideoExists(v) /\ videos[v].owner = u /\ videos[v].src = s}

ReadyVideos(s) == {v \in VideoIds : videos[v].status = "READY" /\ videos[v].src = s}

\* find_ready_video_globally: the rows either query may return (LIMIT 1 with
\* no ORDER BY): READY videos with non-empty suggested prompts first,
\* otherwise any READY video
\* variant: any READY video, whatever its Notes hold
find_ready_video_globally_unranked(s) == ReadyVideos(s)
find_ready_video_globally(s) ==
    LET full == {v \in ReadyVideos(s) : notes[v].present /\ notes[v].suggested_prompts}
    IN IF full # {} THEN full ELSE ReadyVideos(s)

\* the limit check of create_video (line 58)
LimitReached(u) == users[u].videos_analyzed >= users[u].video_limit

\* a READY video of another owner exists for s and u holds no video for s
CacheHitFor(u, s) ==
    /\ \E v \in ReadyVideos(s) : videos[v].owner # u
    /\ check_duplicate_video(u, s) = {}

\* the HTTP error a refused request is answered with: pc "refused" until sent
Refuse(i, u, detail, hit) ==
    [reqs EXCEPT ![i] = [IdleReq EXCEPT !.pc = "refused", !.owner = u, !.detail = detail,
                                        !.sawReady = hit]]

\* create_video lines 57-107: limit check, then duplicate check, then the
\* global cache lookup
create_video(i, u, s) ==
    /\ reqs[i].pc = "idle"
    /\ IF LimitReached(u)
       THEN reqs' = Refuse(i, u, "LIMIT_REACHED", CacheHitFor(u, s))
       ELSE IF Cardinality(check_duplicate_video(u, s)) > 1
       THEN \* scalar_one_or_none raises MultipleResultsFound
            reqs' = Refuse(i, u, "ERROR", FALSE)
       ELSE IF check_duplicate_video(u, s) # {}
       THEN reqs' = Refuse(i, u, "EXISTS", FALSE)
       ELSE IF find_ready_video_globally(s) = {}
       THEN reqs' = [reqs EXCEPT ![i] = [IdleReq EXCEPT !.pc = "create", !.owner = u,
                                                       !.src = s]]
       ELSE \E v \in find_ready_video_globally(s) :
            reqs' = [reqs EXCEPT ![i] = [IdleReq EXCEPT !.pc = "clone", !.owner = u,
                                                       !.src = s, !.vid = v,
                                                       !.sawReady = TRUE]]
    /\ UNCHANGED <<dbVars, runs, fnVars>>

\* the response of a refused request is sent
Respond(i) ==
    /\ reqs[i].pc = "refused"
    /\ reqs' = [reqs EXCEPT ![i] = IdleReq]
    /\ UNCHANGED <<dbVars, runs, fnVars>>

\* the Notes row of a clone (lines 673-690): content copied, token counts zeroed
\* variant: a copy that keeps the token counts
CloneNotesRow_verbatim(source) == source
CloneNotesRow(source) == [source EXCEPT !.notes_tokens = 0, !.chapters_tokens = 0]

\* the Transcript row of a clone (lines 661-667): language and the stored text
\* variant: a copy that takes the captions as they were before transliteration
CloneTranscriptRow_untransliterated(source) == [source EXCEPT !.transliterated = FALSE]
CloneTranscriptRow(source) ==
    [present |-> TRUE, language_code |-> source.language_code,
     transliterated |-> source.transliterated]

\* clone_video_for_user lines 645-695: the source's Transcript and Notes are
\* read, and the new READY video and the copies are committed together
CloneCommit(i) ==
    /\ reqs[i].pc = "clone"
    /\ FreeVideoIds # {}
    /\ LET nv == NewVideoId
           sv == reqs[i].vid
       IN /\ videos' = [videos EXCEPT ![nv] = [status |-> "READY", owner |-> reqs[i].owner,
                                               src |-> reqs[i].src, failure_reason |-> ""]]
          /\ transcripts' = IF transcripts[sv].present
                            THEN [transcripts EXCEPT ![nv] = CloneTranscriptRow(transcripts[sv])]
                            ELSE transcripts
          /\ notes' = IF notes[sv].present
                      THEN [notes EXCEPT ![nv] = CloneNotesRow(notes[sv])]
                      ELSE notes
    /\ reqs' = [reqs EXCEPT ![i] = IdleReq]
    /\ UNCHANGED <<jobs, users, guestUsed, redis, runs, fnVars>>

\* create_video lines 109-128: INSERT the PENDING video, enqueue the task
CreateAndEnqueue(i) ==
    /\ reqs[i].pc = "create"
    /\ FreeVideoIds # {}
    /\ FreeRunIds # {}
    /\ LET nv == NewVideoId IN
       /\ videos' = [videos EXCEPT ![nv] = [status |-> "PENDING", owner |-> reqs[i].owner,
                                            src |-> reqs[i].src, failure_reason |-> ""]]
       /\ runs' = enqueue_video_processing(NewRunId, nv, reqs[i].owner, reqs[i].src)
    /\ reqs' = [reqs EXCEPT ![i] = IdleReq]
    /\ UNCHANGED <<transcripts, notes, jobs, users, guestUsed, redis, fnVars>>

\* create_video_guest lines 153-254 for an anonymous caller who may generate:
\* no READY video for s (is_cached false) and no guest_usage row yet
create_video_guest(s) ==
    /\ ReadyVideos(s) = {}
    /\ ~guestUsed
    /\ FreeVideoIds # {}
    /\ FreeRunIds # {}
    /\ LET nv == NewVideoId IN
       /\ videos' = [videos EXCEPT ![nv] = [status |-> "PENDING", owner |-> Guest,
                                            src |-> s, failure_reason |-> ""]]
       /\ runs' = enqueue_video_processing(NewRunId, nv, Guest, s)
    /\ guestUsed' = TRUE
    /\ UNCHANGED <<transcripts, notes, jobs, users, redis, reqs, fnVars>>

\* the guard of reprocess_video (lines 483-502): found, owned, FAILED
\* variant: a guard without the status test
ReprocessAccepted_anystate(u, v) ==
    /\ VideoExists(v)
    /\ videos[v].owner = u
ReprocessAccepted(u, v) ==
    /\ VideoExists(v)
    /\ videos[v].owner = u
    /\ videos[v].status = "FAILED"

\* reprocess_video lines 483-502
ReprocessCheck(i, u, v) ==
    /\ reqs[i].pc = "idle"
    /\ reqs' = IF ReprocessAccepted(u, v)
               THEN [reqs EXCEPT ![i] = [IdleReq EXCEPT !.pc = "reprocess", !.owner = u,
                                                       !.src = videos[v].src, !.vid = v]]
               ELSE Refuse(i, u, "NOT_ACCEPTED", FALSE)
    /\ UNCHANGED <<dbVars, runs, fnVars>>

\* reprocess_video lines 504-525: update_video_status(PENDING), then enqueue
ReprocessEnqueue(i) ==
    /\ reqs[i].pc = "reprocess"
    /\ FreeRunIds # {}
    /\ LET v == reqs[i].vid IN
       /\ videos' = IF VideoExists(v) THEN [videos EXCEPT ![v].status = "PENDING"] ELSE videos
       /\ runs' = enqueue_video_processing(NewRunId, v, reqs[i].owner, reqs[i].src)
    /\ reqs' = [reqs EXCEPT ![i] = IdleReq]
    /\ UNCHANGED <<transcripts, notes, jobs, users, guestUsed, redis, fnVars>>

\* delete_video (route lines 452-467, service lines 531-537): the video and,
\* by cascade, its jobs, transcript and notes
DeleteVideo(u, v) ==
    /\ VideoExists(v)
    /\ videos[v].owner = u
    /\ videos' = [videos EXCEPT ![v] = [NoVideo EXCEPT !.status = "DELETED"]]
    /\ transcripts' = [transcripts EXCEPT ![v] = NoTranscript]
    /\ notes' = [notes EXCEPT ![v] = NoNotes]
    /\ jobs' = [r \in RunIds |-> IF JobExists(r) /\ jobs[r].video_id = v
                                THEN [NoJob EXCEPT !.status = "DELETED"]
                                ELSE jobs[r]]
    /\ UNCHANGED <<users, guestUsed, redis, runs, reqs, fnVars>>

Routes ==
    \/ \E i \in ReqIds, u \in Users, s \in Sources : create_video(i, u, s)
    \/ \E i \in ReqIds : CloneCommit(i)
    \/ \E i \in ReqIds : CreateAndEnqueue(i)
    \/ \E s \in Sources : create_video_guest(s)
    \/ \E i \in ReqIds : Respond(i)
    \/ \E i \in ReqIds, u \in Users, v \in VideoIds : ReprocessCheck(i, u, v)
    \/ \E i \in ReqIds : ReprocessEnqueue(i)
    \/ \E u \in Users, v \in VideoIds : DeleteVideo(u, v)

Next ==
    \/ \E r \in RunIds : Worker(r)
    \/ Routes

Spec == Init /\ [][Next]_vars

\* Two POST /api/videos requests in flight at once (two sessions of the API
\* process), with the tasks they enqueue
RaceReqIds == 1..(MaxReqs + 1)
\* both requests name the same source item, one whose captions are not English
RaceSources == {"s2"}

InitRace ==
    /\ videos = [v \in VideoIds |-> NoVideo]
    /\ transcripts = [v \in VideoIds |-> NoTranscript]
    /\ notes = [v \in VideoIds |-> NoNotes]
    /\ jobs = [r \in RunIds |-> NoJob]
    /\ guestUsed = FALSE
    /\ redis = [k \in {<<"transcript", s>> : s \in Sources} |-> 0]
    /\ runs = [r \in RunIds |-> NoRun]
    /\ reqs = [i \in RaceReqIds |-> IdleReq]
    /\ InitUsers
    /\ InitChunkIdle
    /\ InitCallIdle
    /\ InitRetryIdle

NextRace ==
    \/ \E i \in RaceReqIds, u \in Users, s \in RaceSources : create_video(i, u, s)
    \/ \E i \in RaceReqIds : CloneCommit(i)
    \/ \E i \in RaceReqIds : CreateAndEnqueue(i)
    \/ \E i \in RaceReqIds : Respond(i)
    \/ \E r \in RunIds : Worker(r)

SpecRace == InitRace /\ [][NextRace]_vars

\* Two POST /api/videos/{id}/reprocess requests in flight at once, for a video
\* whose earlier run failed while fetching the captions: the video is FAILED
\* with the reason of the failure, and it has no Transcript and no Notes. The
\* earlier run's task is gone from the queue; its Job row, which nothing
\* reads again, is not kept in jobs.
InitReprocess ==
    /\ \E u \in Users, s \in Sources :
          videos = [v \in VideoIds |->
                      IF v = 1 THEN [status |-> "FAILED", owner |-> u, src |-> s,
                                     failure_reason |-> "youtube"]
                      ELSE NoVideo]
    /\ transcripts = [v \in VideoIds |-> NoTranscript]
    /\ notes = [v \in VideoIds |-> NoNotes]
    /\ jobs = [r \in RunIds |-> NoJob]
    /\ guestUsed = FALSE
    /\ redis = [k \in {<<"transcript", s>> : s \in Sources} |-> 0]
    /\ runs = [r \in RunIds |-> NoRun]
    /\ reqs = [i \in RaceReqIds |-> IdleReq]
    /\ InitUsers
    /\ InitChunkIdle
    /\ InitCallIdle
    /\ InitRetryIdle

NextReprocess ==
    \/ \E i \in RaceReqIds, u \in Users, v \in VideoIds : ReprocessCheck(i, u, v)
    \/ \E i \in RaceReqIds : ReprocessEnqueue(i)
    \/ \E i \in RaceReqIds : Respond(i)
    \/ \E r \in RunIds : Worker(r)

SpecReprocess == InitReprocess /\ [][NextReprocess]_vars

\* ------------------------------------------------------------------ C40
\* a task that is queued or that a worker is running
InProgress(r) == runs[r].pc \notin {"none", "done_ok", "done_fail", "crashed"}

\* C40: for one video at most one processing run is queued or running at any
\* time, also when reprocess requests for the video arrive together
C40_AtMostOneRunPerVideo ==
    \A r1, r2 \in RunIds :
        (r1 # r2 /\ InProgress(r1) /\ InProgress(r2))
            => runs[r1].video_id # runs[r2].video_id

\* The raw-fetch cache drops a key when its time to live has run out.
ExpireKey(s) ==
    /\ redis[cache_key(s)] # 0
    /\ redis' = [redis EXCEPT ![cache_key(s)] = 0]
    /\ UNCHANGED <<videos, transcripts, notes, jobs, users, guestUsed, runs, reqs, fnVars>>

NextTTL ==
    \/ Next
    \/ \E s \in Sources : ExpireKey(s)

\* the pipeline together with the expiry of cache keys
SpecTTL == Init /\ [][NextTTL]_vars

\* =========================================================================
\* Window chunker: transcript_processor.chunk_transcript
\* =========================================================================
\* TranscriptConfig
CHUNK_DURATION_SECONDS == 300
CHUNK_OVERLAP_SECONDS == 45
MIN_CHUNK_STEP_SECONDS == 60
\* the literals of lines 297 and 298
MIN_EFFECTIVE_DURATION == 180
MIN_EFFECTIVE_OVERLAP == 45

Max(a, b) == IF a >= b THEN a ELSE b
Min(a, b) == IF a <= b THEN a ELSE b

\* an optional argument: {} is None, {n} is the value n (lines 291-294)
ArgOr(opt, default) == IF opt = {} THEN default ELSE CHOOSE n \in opt : TRUE

effective_duration(chunk_duration) == Max(MIN_EFFECTIVE_DURATION, chunk_duration)
effective_overlap(chunk_duration, overlap) ==
    Min(Max(overlap, MIN_EFFECTIVE_OVERLAP), effective_duration(chunk_duration) \div 2)
\* variant: a step longer than the window
step_wide(chunk_duration, overlap) ==
    Max(MIN_CHUNK_STEP_SECONDS,
        effective_duration(chunk_duration) + effective_overlap(chunk_duration, overlap))
step(chunk_duration, overlap) ==
    Max(MIN_CHUNK_STEP_SECONDS,
        effective_duration(chunk_duration) - effective_overlap(chunk_duration, overlap))

\* line 320: the segment starts inside the window
\* variant: a window open at its start
InWindow_open(seg, window_start, window_end) ==
    window_start < seg.start /\ seg.start < window_end
InWindow(seg, window_start, window_end) ==
    window_start <= seg.start /\ seg.start < window_end

\* line 315
\* variant: a window that ends where the next one starts
window_end_of_no_overlap(window_start, chunk_duration, video_duration) ==
    Min(window_start + effective_duration(chunk_duration)
            - effective_overlap(chunk_duration, MIN_EFFECTIVE_OVERLAP), video_duration)
window_end_of(window_start, chunk_duration, video_duration) ==
    Min(window_start + effective_duration(chunk_duration), video_duration)

\* lines 314-336: the sliding window; a window holding no segment adds no chunk
RECURSIVE WindowLoop(_, _, _, _, _, _)
WindowLoop(segments, video_duration, chunk_duration, overlap, window_start, chunks) ==
    IF ~(window_start < video_duration)
    THEN chunks
    ELSE LET window_end == window_end_of(window_start, chunk_duration, video_duration)
             chunk_segments == SelectSeq(segments,
                                   LAMBDA seg : InWindow(seg, window_start, window_end))
             appended == IF chunk_segments # <<>>
                         THEN Append(chunks, [chunk_index |-> Len(chunks),
                                              start_time |-> window_start,
                                              end_time |-> window_end,
                                              segments |-> chunk_segments])
                         ELSE chunks
         IN WindowLoop(segments, video_duration, chunk_duration, overlap,
                       window_start + step(chunk_duration, overlap), appended)

\* line 347: the segments of the tail chunk
InTail(seg, last_chunk_end, overlap) == seg.start >= last_chunk_end - overlap

\* lines 339-355: the tail chunk, added when the last segment starts at or after
\* the end of the last chunk
WithTail(segments, video_duration, overlap, chunks) ==
    LET last_segment_start == segments[Len(segments)].start
        last_chunk_end == IF chunks # <<>> THEN chunks[Len(chunks)].end_time ELSE 0
        tail_segments == SelectSeq(segments, LAMBDA seg : InTail(seg, last_chunk_end, overlap))
    IN IF last_segment_start >= last_chunk_end /\ tail_segments # <<>>
       THEN Append(chunks, [chunk_index |-> Len(chunks),
                            start_time |-> last_chunk_end - overlap,
                            end_time |-> video_duration,
                            segments |-> tail_segments])
       ELSE chunks

chunk_transcript(segments, video_duration, chunk_duration_arg, overlap_arg) ==
    LET chunk_duration == ArgOr(chunk_duration_arg, CHUNK_DURATION_SECONDS)
        overlap == ArgOr(overlap_arg, CHUNK_OVERLAP_SECONDS)
    IN IF segments = <<>>
       THEN <<>>
       ELSE IF video_duration <= effective_duration(chunk_duration)
       THEN << [chunk_index |-> 0, start_time |-> 0, end_time |-> video_duration,
                segments |-> segments] >>
       ELSE WithTail(segments, video_duration, overlap,
                     WindowLoop(segments, video_duration, chunk_duration, overlap, 0, <<>>))

\* ---- inputs: time-ordered sentences with start times in seconds ----
SegmentStarts == {0, 100, 250, 299, 300, 420, 560, 700}
VideoDurations == {0, 200, 301, 560, 900}
ChunkDurationArgs == {{}, {120}, {400}}
OverlapArgs == {{}, {0}, {200}}

SortedStarts ==
    UNION {{q \in [1..n -> SegmentStarts] : \A i \in 1..(n - 1) : q[i] <= q[i + 1]}
           : n \in 0..MaxSegs}
Segments(q) == [i \in 1..Len(q) |-> [id |-> i, start |-> q[i]]]

InitChunk ==
    /\ InitPipeline
    /\ users = [u \in Users |-> [videos_analyzed |-> 0, video_limit |-> VideoLimit]]
    /\ chunkIn \in {[segments |-> Segments(q), video_duration |-> d, chunk_duration |-> c,
                     overlap |-> o] :
                    q \in SortedStarts, d \in VideoDurations, c \in ChunkDurationArgs,
                    o \in OverlapArgs}
    /\ chunkOut = NoChunkOut
    /\ InitCallIdle
    /\ InitRetryIdle

\* one call of chunk_transcript
ChunkTranscript ==
    /\ ~chunkOut.done
    /\ chunkOut' = [done |-> TRUE,
                    chunks |-> chunk_transcript(chunkIn.segments, chunkIn.video_duration,
                                                chunkIn.chunk_duration, chunkIn.overlap)]
    /\ UNCHANGED <<chunkIn, pipeVars, callVars, retry>>

NextChunk == ChunkTranscript

SpecChunk == InitChunk /\ [][NextChunk]_vars

\* =========================================================================
\* Properties of the pipeline (checked under Spec)
\* =========================================================================
FinalPcs == {"done_ok", "done_fail", "crashed"}
Artifacts(v) ==
    /\ transcripts[v].present
    /\ notes[v].present /\ notes[v].chapters /\ notes[v].structured

\* C1: a Job record committed in state COMPLETED or FAILED never changes state
\* afterwards (it can only disappear with its video)
C1_TerminalJobsNeverChange ==
    [][\A r \in RunIds :
        jobs[r].status \in {"COMPLETED", "FAILED"}
            => jobs'[r].status \in {jobs[r].status, "DELETED"}]_vars

\* C2: the join returns a result only when both generation tasks succeeded;
\* otherwise it raises the AI error, the except clause puts the Job and the
\* video in FAILED, and the run leaves the Notes of its video as they were
C2_FailFastJoin ==
    [][\A r \in RunIds :
        LET v == runs[r].video_id IN
        /\ (runs[r].pc = "generate" /\ runs'[r].pc # "generate")
             => IF runs'[r].pc = "save_notes"
                THEN runs'[r].chapters = "ok" /\ runs'[r].structured = "ok"
                ELSE runs'[r].pc = "h_job" /\ runs'[r].err = "ai"
        /\ (runs[r].pc = "save_notes" /\ notes'[v] # notes[v] /\ notes'[v].present)
             => notes'[v].chapters /\ notes'[v].structured
        /\ (runs[r].err = "ai" /\ runs[r].pc = "h_job" /\ runs'[r].pc = "h_video")
             => jobs'[r].status = "FAILED"
        /\ (runs[r].err = "ai" /\ runs'[r].pc = "done_fail" /\ VideoExists(v))
             => videos'[v].status = "FAILED"
        /\ runs[r].err = "ai" => (notes'[v] = notes[v] \/ ~notes'[v].present)]_vars

\* C2 witness: a generation failure was handled: Job and video FAILED with the
\* AI reason and no Notes for the video
C2_Witness ==
    \E r \in RunIds :
        /\ jobs[r].status = "FAILED" /\ jobs[r].error_message = "ai"
        /\ videos[jobs[r].video_id].status = "FAILED"
        /\ ~notes[jobs[r].video_id].present

\* C3 as stated: a submission by an owner who holds no video of a source for
\* which another owner's READY video exists is never turned away
C3_CacheHitAlwaysServed ==
    \A i \in ReqIds : ~(reqs[i].pc = "refused" /\ reqs[i].sawReady)

\* C3 amended: a submission that passes the limit check and the duplicate check
\* is served from the cache whenever a READY video of the source exists; the
\* clone is READY at once, no task is enqueued, no Job is created, the raw-fetch
\* cache and the counters are untouched and the clone's token counts are 0; a
\* LIMIT_REACHED refusal is given only to an owner at the limit
C3_CloneWhenBelowLimit ==
    [][\A i \in ReqIds :
        /\ (reqs[i].pc = "idle" /\ reqs'[i].pc = "clone")
             => /\ ~LimitReached(reqs'[i].owner)
                /\ videos[reqs'[i].vid].status = "READY"
                /\ videos[reqs'[i].vid].src = reqs'[i].src
        /\ (reqs[i].pc = "idle" /\ reqs'[i].pc = "create")
             => ReadyVideos(reqs'[i].src) = {}
        /\ (reqs[i].pc = "idle" /\ reqs'[i].pc = "refused"
                /\ reqs'[i].detail = "LIMIT_REACHED")
             => LimitReached(reqs'[i].owner)
        /\ (reqs[i].pc = "clone" /\ reqs'[i].pc = "idle")
             => /\ \E v \in VideoIds :
                    /\ videos[v].status = "ABSENT"
                    /\ videos'[v] = [status |-> "READY", owner |-> reqs[i].owner,
                                     src |-> reqs[i].src, failure_reason |-> ""]
                    /\ notes'[v].notes_tokens = 0
                    /\ notes'[v].chapters_tokens = 0
                /\ UNCHANGED <<runs, jobs, redis, users>>]_vars

\* C3 witness: a clone with Notes whose token counts are 0 stands next to the
\* READY video it was made from
C3_Witness ==
    \E v \in VideoIds, w \in VideoIds :
        /\ v # w
        /\ videos[v].status = "READY" /\ videos[w].status = "READY"
        /\ videos[v].src = videos[w].src
        /\ notes[v].present /\ notes[v].notes_tokens = 0
        /\ notes[w].present /\ notes[w].notes_tokens > 0

\* C4: whenever a video is READY or a Job is COMPLETED, the Transcript and a
\* Notes record with both generation results are persisted for that video
C4_CompletedHasArtifacts ==
    /\ \A v \in VideoIds : videos[v].status = "READY" => Artifacts(v)
    /\ \A r \in RunIds : jobs[r].status = "COMPLETED" => Artifacts(jobs[r].video_id)

\* C5: a run that ends on an error leaves its Job and its video in FAILED with
\* the same non-empty reason
C5_ErrorsEndFailed ==
    [][\A r \in RunIds :
        LET v == runs[r].video_id IN
        (runs[r].pc \notin (FinalPcs \cup {"none", "queued"})
            /\ runs'[r].pc \in {"done_fail", "crashed"}
            /\ VideoExists(v) /\ videos'[v].status # "DELETED")
          => /\ jobs'[r].status = "FAILED"
             /\ jobs'[r].error_message # ""
             /\ videos'[v].status = "FAILED"
             /\ videos'[v].failure_reason = jobs'[r].error_message]_vars

\* C6 in finite-run form: once the task of a video has ended and no other task
\* for the video is waiting or running, the video is READY or FAILED
C6_EndedTaskLeavesTerminalVideo ==
    \A r \in RunIds :
        LET v == runs[r].video_id IN
        (runs[r].pc \in FinalPcs /\ VideoExists(v)
            /\ \A q \in RunIds : runs[q].video_id = v => runs[q].pc \in FinalPcs)
          => videos[v].status \in {"READY", "FAILED"}

\* C7: a resubmission is accepted only for a video that is FAILED; it enqueues
\* one task and changes no Job; the Job its run then creates is a new record
\* starting in PENDING; a FAILED Job keeps its status, reason and timestamps
\* (it can only disappear with its video)
C7_ResubmissionCreatesNewJob ==
    [][/\ \A i \in ReqIds :
            /\ (reqs[i].pc = "idle" /\ reqs'[i].pc = "reprocess")
                 => /\ videos[reqs'[i].vid].status = "FAILED"
                    /\ videos[reqs'[i].vid].owner = reqs'[i].owner
            /\ (reqs[i].pc = "reprocess" /\ reqs'[i].pc = "idle")
                 => /\ jobs' = jobs
                    /\ \E r \in RunIds :
                        /\ runs[r].pc = "none"
                        /\ runs'[r].pc = "queued"
                        /\ runs'[r].video_id = reqs[i].vid
                        /\ jobs[r].status = "NONE"
       /\ \A r \in RunIds :
            /\ (jobs[r].status = "NONE" /\ jobs'[r].status # "NONE")
                 => jobs'[r] = [status |-> "PENDING", video_id |-> runs[r].video_id,
                                progress |-> 0, error_message |-> "",
                                started_at |-> FALSE, completed_at |-> FALSE]
            /\ jobs[r].status = "FAILED"
                 => (jobs'[r] = jobs[r] \/ jobs'[r].status = "DELETED")]_vars

\* C7 witness: a resubmitted video has its earlier FAILED Job and the new Job
\* of the second run
C7_Witness ==
    \E r \in RunIds, q \in RunIds :
        /\ r # q
        /\ jobs[r].status = "FAILED"
        /\ JobExists(q) /\ jobs[q].status # "FAILED"
        /\ jobs[q].video_id = jobs[r].video_id

\* C8: when no run of an owner is under way, the owner's videos_analyzed equals
\* the number of that owner's runs that returned success
C8_CounterEqualsCompletedRuns ==
    \A u \in Users :
        (\A r \in RunIds : runs[r].user_id = u => runs[r].pc = "done_ok")
          => users[u].videos_analyzed =
                Cardinality({r \in RunIds : runs[r].pc = "done_ok" /\ runs[r].user_id = u})

\* C21: clone_video_for_user commits a new READY video for the new owner whose
\* Transcript equals the source's and whose Notes equal the source's in every
\* content field with notes_tokens = chapters_tokens = 0, and it changes no
\* other video, Transcript or Notes row (the source's included), no Job, no
\* counter and no task
C21_CloneCopiesAndLeavesSource ==
    [][\A i \in ReqIds :
        (reqs[i].pc = "clone" /\ reqs'[i].pc = "idle")
          => LET sv == reqs[i].vid IN
             \E nv \in VideoIds :
                /\ videos[nv].status = "ABSENT"
                /\ videos'[nv].status = "READY"
                /\ videos'[nv].owner = reqs[i].owner
                /\ videos'[nv].src = reqs[i].src
                /\ transcripts'[nv] = transcripts[sv]
                /\ notes'[nv].present = notes[sv].present
                /\ notes'[nv].chapters = notes[sv].chapters
                /\ notes'[nv].structured = notes[sv].structured
                /\ notes'[nv].suggested_prompts = notes[sv].suggested_prompts
                /\ notes'[nv].notes_tokens = 0
                /\ notes'[nv].chapters_tokens = 0
                /\ \A w \in VideoIds \ {nv} :
                    /\ videos'[w] = videos[w]
                    /\ transcripts'[w] = transcripts[w]
                    /\ notes'[w] = notes[w]
                /\ UNCHANGED <<jobs, users, runs, redis, guestUsed>>]_vars

\* C21 witness: a clone of a transliterated source stands next to it: same
\* Transcript, same Notes content, token counts 0 on the clone only
C21_Witness ==
    \E v \in VideoIds, w \in VideoIds :
        /\ videos[v].status = "READY" /\ videos[w].status = "READY"
        /\ videos[v].owner # videos[w].owner
        /\ videos[v].src = videos[w].src
        /\ transcripts[v].transliterated /\ transcripts[w] = transcripts[v]
        /\ notes[v].notes_tokens = 1 /\ notes[v].chapters_tokens = 1
        /\ notes[w].present /\ notes[w].notes_tokens = 0 /\ notes[w].chapters_tokens = 0
        /\ notes[w].chapters /\ notes[w].structured
        /\ notes[w].suggested_prompts = notes[v].suggested_prompts

\* C22: the completion-cache entry of a source outlives the teardown of a
\* unit: when the owner of a READY video deletes it, a submission of the same
\* source made afterwards still finds a READY video to be served from
C22_CacheEntrySurvivesDelete ==
    [][\A v \in VideoIds :
        (videos[v].status = "READY" /\ videos'[v].status = "DELETED")
          => LET after == {w \in VideoIds : videos'[w].status = "READY"
                                             /\ videos'[w].src = videos[v].src}
             IN after # {}]_vars

\* C23 (checked under SpecRace): when two submissions of one source are in
\* flight together and both miss the completion cache, each gets a video and
\* a task of its own; no task is ever blocked by the other; a step of a task
\* changes no video, Transcript or Notes row but those of its own video and no
\* Job but its own; and a task that returns success leaves its video READY
\* with the Transcript and the Notes it generated itself and its Job COMPLETED
C23_RaceOnlyDuplicatesWork ==
    /\ [](\A r \in RunIds, q \in RunIds :
            (r # q /\ runs[r].pc # "none" /\ runs[q].pc # "none")
              => runs[r].video_id # runs[q].video_id)
    /\ [](\A r \in RunIds :
            runs[r].pc \notin (FinalPcs \cup {"none"}) => ENABLED Worker(r))
    /\ [][\A r \in RunIds :
            LET v == runs[r].video_id IN
            /\ (runs[r].pc # "none" /\ runs'[r] # runs[r])
                 => /\ \A w \in VideoIds \ {v} :
                        /\ videos'[w] = videos[w]
                        /\ transcripts'[w] = transcripts[w]
                        /\ notes'[w] = notes[w]
                    /\ \A q \in RunIds \ {r} : jobs'[q] = jobs[q]
            /\ (runs[r].pc # "done_ok" /\ runs'[r].pc = "done_ok")
                 => /\ videos'[v].status = "READY"
                    /\ transcripts'[v].present
                    /\ notes'[v].present /\ notes'[v].chapters /\ notes'[v].structured
                    /\ notes'[v].notes_tokens = 1 /\ notes'[v].chapters_tokens = 1
                    /\ jobs'[r].status = "COMPLETED" /\ jobs'[r].video_id = v]_vars

\* C23 witness: both submissions of the source ran a generation of their own:
\* two READY videos of two owners, each with generated Notes, and both tasks
\* returned success
C23_Witness ==
    /\ \A r \in RunIds : runs[r].pc = "done_ok" /\ jobs[r].status = "COMPLETED"
    /\ \E v \in VideoIds, w \in VideoIds :
        /\ v # w
        /\ videos[v].src = videos[w].src /\ videos[v].owner # videos[w].owner
        /\ videos[v].status = "READY" /\ videos[w].status = "READY"
        /\ transcripts[v].present /\ transcripts[w].present
        /\ notes[v].notes_tokens = 1 /\ notes[w].notes_tokens = 1

\* a video whose Notes hold non-empty suggested prompts
FullyPopulated(v) == notes[v].present /\ notes[v].suggested_prompts

\* C29: the video create_video gets from find_ready_video_globally is a READY
\* video of the submitted source, one with non-empty suggested prompts
\* whenever such a READY video exists; the lookup returns nothing, and the
\* request goes on to create a video, exactly when the source has no READY
\* video (PENDING, PROCESSING and FAILED videos are never returned)
C29_LookupReturnsBestReady ==
    [][\A i \in ReqIds :
        (reqs[i].pc = "idle" /\ reqs'[i].pc \in {"clone", "create"}) =>
            LET s == reqs'[i].src
                v == reqs'[i].vid
            IN /\ reqs'[i].pc = "clone" <=> ReadyVideos(s) # {}
               /\ reqs'[i].pc = "clone" =>
                     /\ videos[v].status = "READY"
                     /\ videos[v].src = s
                     /\ (\E w \in ReadyVideos(s) : FullyPopulated(w)) => FullyPopulated(v)]_vars

\* C29 witness: the source of a request about to clone has a READY video with
\* suggested prompts and a READY video without, next to a video that is not
\* READY, and the lookup returned the one with prompts
C29_Witness ==
    \E i \in ReqIds :
        /\ reqs[i].pc = "clone"
        /\ FullyPopulated(reqs[i].vid)
        /\ \E w \in ReadyVideos(reqs[i].src) : ~FullyPopulated(w)

\* C29 witness of the fallback: the lookup returned a READY video without
\* suggested prompts, the source having none with prompts
C29_FallbackWitness ==
    \E i \in ReqIds :
        /\ reqs[i].pc = "clone"
        /\ ~FullyPopulated(reqs[i].vid)

\* C30: after any interleaving of submissions, an owner holds at most one video
\* of a source, so the duplicate lookup finds at most one record
C30_AtMostOneVideoPerOwnerAndSource ==
    \A u \in Users, s \in Sources : Cardinality(check_duplicate_video(u, s)) <= 1

\* the stage a Job may advance to from each stage, after the spec's five states
SpecStageAfter(st) ==
    CASE st = "NONE" -> {"PENDING"}
      [] st = "PENDING" -> {"FETCHING_TRANSCRIPT"}
      [] st = "FETCHING_TRANSCRIPT" -> {"TRANSFORMING"}
      [] st = "TRANSFORMING" -> {"GENERATING_NOTES"}
      [] st = "GENERATING_NOTES" -> {"COMPLETED"}
      [] OTHER -> {}

\* and after the states of JobStatus
JobStageAfter(st) ==
    CASE st = "NONE" -> {"PENDING"}
      [] st = "PENDING" -> {"FETCHING_TRANSCRIPT"}
      [] st = "FETCHING_TRANSCRIPT" -> {"GENERATING_NOTES"}
      [] st = "GENERATING_NOTES" -> {"COMPLETED"}
      [] OTHER -> {}

C35_ProgressMonotoneAndFullIffCompleted ==
    /\ [](\A r \in RunIds :
            JobExists(r) =>
                /\ jobs[r].progress \in {0, 10, 40, 100}
                /\ jobs[r].progress = 100 <=> jobs[r].status = "COMPLETED")
    /\ [][\A r \in RunIds :
            (JobExists(r) /\ jobs'[r].status \notin {"NONE", "DELETED"})
                => jobs'[r].progress >= jobs[r].progress]_vars

\* C36: a FAILED video has no Notes record, and a run about to insert the
\* Notes of its video finds no Notes record of that video
C36_FailedVideoHasNoNotes ==
    /\ \A v \in VideoIds : videos[v].status = "FAILED" => ~notes[v].present
    /\ \A r \in RunIds :
          (runs[r].pc = "save_notes" /\ VideoExists(runs[r].video_id))
              => ~notes[runs[r].video_id].present

\* C37: an owner's videos_analyzed never exceeds the owner's video_limit
C37_CounterWithinLimit ==
    \A u \in Users : users[u].videos_analyzed <= users[u].video_limit

\* =========================================================================
\* Properties of the window chunker (checked under SpecChunk)
\* =========================================================================
Covered(t) ==
    \E k \in 1..Len(chunkOut.chunks) :
        chunkOut.chunks[k].start_time <= t /\ t < chunkOut.chunks[k].end_time
ChunkDuration == ArgOr(chunkIn.chunk_duration, CHUNK_DURATION_SECONDS)
Overlap == ArgOr(chunkIn.overlap, CHUNK_OVERLAP_SECONDS)
Instants == 0..(chunkIn.video_duration - 1)
\* the start times of the windows the loop visits
WindowStarts ==
    {w \in {k * step(ChunkDuration, Overlap) :
                k \in 0..(chunkIn.video_duration \div step(ChunkDuration, Overlap))} :
        w < chunkIn.video_duration}
WindowEnd(w) == Min(w + effective_duration(ChunkDuration), chunkIn.video_duration)
HoldsSentence(w) ==
    \E i \in 1..Len(chunkIn.segments) :
        w <= chunkIn.segments[i].start /\ chunkIn.segments[i].start < WindowEnd(w)
OneWindow == chunkIn.video_duration <= effective_duration(ChunkDuration)

\* C9: every sentence passed to chunk_transcript appears in at least one of
\* the returned chunks
C9_EverySentenceInAChunk ==
    chunkOut.done =>
        \A i \in 1..Len(chunkIn.segments) :
            \E k \in 1..Len(chunkOut.chunks) :
                \E j \in 1..Len(chunkOut.chunks[k].segments) :
                    chunkOut.chunks[k].segments[j].id = i

\* C9 witness: content longer than one window whose first sentence starts at 0
\* and whose last sentence was picked up by the tail chunk
C9_Witness ==
    /\ chunkOut.done
    /\ ~OneWindow
    /\ Len(chunkOut.chunks) >= 2
    /\ chunkIn.segments[1].start = 0
    /\ chunkIn.segments[Len(chunkIn.segments)].start >= chunkIn.video_duration
    /\ chunkOut.chunks[Len(chunkOut.chunks)].end_time = chunkIn.video_duration

TheStep == step(ChunkDuration, Overlap)
\* window size minus step
FixedOverlap == effective_duration(ChunkDuration) - TheStep
\* the tail chunk is added exactly when the last sentence starts at or after
\* the total duration; it is then the last chunk
TailAdded ==
    /\ chunkIn.segments # <<>>
    /\ chunkIn.segments[Len(chunkIn.segments)].start >= chunkIn.video_duration
WindowChunks == Len(chunkOut.chunks) - (IF TailAdded THEN 1 ELSE 0)
HasSentence(k, i) ==
    \E j \in 1..Len(chunkOut.chunks[k].segments) : chunkOut.chunks[k].segments[j].id = i
\* sentence i starts in the overlap region of the windows starting at w and
\* at w + step
InOverlap(i, w) ==
    /\ w + TheStep <= chunkIn.segments[i].start
    /\ chunkIn.segments[i].start < WindowEnd(w)
\* the windows at w and at w + step are both returned, and both hold sentence i
InBothChunks(i, w) ==
    \E k, l \in 1..WindowChunks :
        /\ l = k + 1
        /\ chunkOut.chunks[k].start_time = w /\ chunkOut.chunks[k].end_time = WindowEnd(w)
        /\ chunkOut.chunks[l].start_time = w + TheStep
        /\ chunkOut.chunks[l].end_time = WindowEnd(w + TheStep)
        /\ HasSentence(k, i) /\ HasSentence(l, i)

\* C32 as stated: for content longer than one window, consecutive chunks other
\* than the tail chunk overlap by window size minus step, and every sentence
\* that starts in the overlap region of two consecutive windows is in both
\* chunks
C32_ConsecutiveChunksOverlapFixed ==
    (chunkOut.done /\ ~OneWindow /\ chunkIn.segments # <<>>) =>
        /\ \A k \in 1..(WindowChunks - 1) :
              chunkOut.chunks[k].end_time - chunkOut.chunks[k + 1].start_time = FixedOverlap
        /\ \A w \in WindowStarts : \A i \in 1..Len(chunkIn.segments) :
              (w + TheStep \in WindowStarts /\ InOverlap(i, w)) => InBothChunks(i, w)

\* C32 amended: for content longer than one window, two consecutive windows
\* (starting at w and at w + step) overlap by window size minus step, or by
\* less and more than nothing when the earlier window is cut at the total
\* duration, and every sentence that starts in their overlap region is in the
\* chunks of both windows, which are consecutive chunks. Every chunk other than
\* the tail chunk is a window, and consecutive chunks either are consecutive
\* windows or have windows holding no sentence between them
C32_SentencesOfTheOverlapInBoth ==
    (chunkOut.done /\ ~OneWindow /\ chunkIn.segments # <<>>) =>
        /\ FixedOverlap = effective_overlap(ChunkDuration, Overlap)
        /\ \A w \in WindowStarts :
              w + TheStep \in WindowStarts =>
                  LET region == WindowEnd(w) - (w + TheStep)
                  IN /\ 0 < region /\ region <= FixedOverlap
                     /\ region < FixedOverlap
                           <=> w + effective_duration(ChunkDuration) > chunkIn.video_duration
                     /\ \A i \in 1..Len(chunkIn.segments) :
                           InOverlap(i, w) => InBothChunks(i, w)
        /\ \A k \in 1..WindowChunks :
              /\ chunkOut.chunks[k].start_time \in WindowStarts
              /\ chunkOut.chunks[k].end_time = WindowEnd(chunkOut.chunks[k].start_time)
        /\ \A k \in 1..(WindowChunks - 1) :
              \/ chunkOut.chunks[k + 1].start_time = chunkOut.chunks[k].start_time + TheStep
              \/ \E w \in WindowStarts :
                    /\ chunkOut.chunks[k].start_time < w
                    /\ w < chunkOut.chunks[k + 1].start_time
                    /\ ~HoldsSentence(w)

\* C32 witness: content longer than one window, a sentence that starts in the
\* overlap region of two consecutive windows and is in both chunks, and a
\* tail chunk after them
C32_Witness ==
    /\ chunkOut.done
    /\ ~OneWindow
    /\ TailAdded
    /\ \E w \in WindowStarts : \E i \in 1..Len(chunkIn.segments) :
          /\ w + TheStep \in WindowStarts
          /\ InOverlap(i, w)
          /\ InBothChunks(i, w)

\* =========================================================================
\* deduplicate_candidates (transcript_processor.py)
\* =========================================================================
\* A title is a string, modelled as a sequence of characters. A candidate is
\* a dict; its "title" entry is {} when the key is missing and {t} otherwise.
MaxCands == 3
MaxTitleLen == 1
TitleChars == {"a", "A", " "}
Titles == UNION {[1..n -> TitleChars] : n \in 0..MaxTitleLen}
TitleEntries == {{}} \cup {{t} : t \in Titles}

\* candidate.get(key, "")
\* variant: the title with its letters in lower case
get_title_lower(candidate) ==
    IF candidate.title = {} THEN <<>>
    ELSE LET t == CHOOSE x \in candidate.title : TRUE
         IN [i \in DOMAIN t |-> IF t[i] = "A" THEN "a" ELSE t[i]]
get_title(candidate) ==
    IF candidate.title = {} THEN <<>> ELSE CHOOSE t \in candidate.title : TRUE

\* variant: every value counts as not yet seen
not_seen_always(value, seen) == TRUE
\* "if value not in seen"
not_seen(value, seen) == value \notin seen

RECURSIVE DedupLoop(_, _, _, _)
DedupLoop(candidates, i, seen, unique) ==
    IF i > Len(candidates) THEN unique
    ELSE LET value == get_title(candidates[i]) IN
         IF not_seen(value, seen)
         THEN DedupLoop(candidates, i + 1, seen \cup {value}, Append(unique, candidates[i]))
         ELSE DedupLoop(candidates, i + 1, seen, unique)

deduplicate_candidates(candidates) == DedupLoop(candidates, 1, {}, <<>>)

\* the candidate dicts of a list, told apart by their position
with_ids(q) == [i \in DOMAIN q |-> [id |-> i, title |-> q[i]]]
TitleLists == UNION {[1..n -> TitleEntries] : n \in 0..MaxCands}
CandidateLists == {with_ids(q) : q \in TitleLists}

InitDedup ==
    /\ InitPipeline
    /\ InitUsers
    /\ InitChunkIdle
    /\ InitRetryIdle
    /\ fnIn \in {[fn |-> "deduplicate_candidates", candidates |-> c] : c \in CandidateLists}
    /\ fnOut = NoReturn

\* one call of deduplicate_candidates
DeduplicateCandidates ==
    /\ fnIn.fn = "deduplicate_candidates"
    /\ ~fnOut.done
    /\ fnOut' = [done |-> TRUE, again |-> FALSE,
                 value |-> deduplicate_candidates(fnIn.candidates)]
    /\ UNCHANGED <<fnIn, pipeVars, chunkVars, retry>>

\* a second call, on the list the first call returned
DeduplicateAgain ==
    /\ fnIn.fn = "deduplicate_candidates"
    /\ fnOut.done
    /\ ~fnOut.again
    /\ fnOut' = [done |-> TRUE, again |-> TRUE, value |-> fnOut.value,
                 second |-> deduplicate_candidates(fnOut.value)]
    /\ UNCHANGED <<fnIn, pipeVars, chunkVars, retry>>

NextDedup == DeduplicateCandidates \/ DeduplicateAgain

SpecDedup == InitDedup /\ [][NextDedup]_vars

\* ------------------------------------------------------------------ C11
\* a title with letter case and whitespace ignored
LowerChar(c) == IF c = "A" THEN "a" ELSE c
RECURSIVE Normalised(_)
Normalised(t) ==
    IF t = <<>> THEN <<>>
    ELSE IF Head(t) = " " THEN Normalised(Tail(t))
         ELSE <<LowerChar(Head(t))>> \o Normalised(Tail(t))

KeyOf(c) == IF c.title = {} THEN <<>> ELSE CHOOSE t \in c.title : TRUE
\* the positions of the output candidates in the input
KeptIds == [k \in 1..Len(fnOut.value) |-> fnOut.value[k].id]

\* C34: deduplicate_candidates is first-seen-wins: a candidate is kept exactly
\* when no earlier candidate has its key, the kept candidates are in input
\* order, and a second call on the output returns the output unchanged
C34_FirstSeenWinsAndIdempotent ==
    fnOut.done =>
        LET in == fnIn.candidates
        IN /\ \A i \in 1..Len(in) :
                (\E k \in 1..Len(KeptIds) : KeptIds[k] = i)
                    <=> ~(\E j \in 1..(i - 1) : KeyOf(in[j]) = KeyOf(in[i]))
           /\ \A k \in 1..Len(KeptIds) : fnOut.value[k] = in[KeptIds[k]]
           /\ \A k, l \in 1..Len(KeptIds) : k < l => KeptIds[k] < KeptIds[l]
           /\ fnOut.again => fnOut.second = fnOut.value

\* C34 witness: a later candidate of an already seen key was dropped, two
\* candidates were kept, and the second call returned the same list
C34_Witness ==
    /\ fnOut.done /\ fnOut.again
    /\ Len(fnOut.value) >= 2
    /\ Len(fnOut.value) < Len(fnIn.candidates)
    /\ fnOut.second = fnOut.value

\* =========================================================================
\* apply_temporal_distribution (transcript_processor.py)
\* =========================================================================
\* An optional value is a set: {} is None, {n} is the value n.
TEMPORAL_BOUNDARY_RATIO == <<6, 10>>
StartTimes == {100, 300, 360, 500}
Scores == {1, 2}
TopicDurations == {200, 600}
RequestedTopics == {0, 1, 2, 5}
CapArgs == {{}, {0}, {1}, {2}}

\* TranscriptConfig(): no cap on either segment
CONFIG == [FIRST_SEGMENT_MAX_TOPICS |-> {}, SECOND_SEGMENT_MAX_TOPICS |-> {}]
Configs == [FIRST_SEGMENT_MAX_TOPICS : CapArgs, SECOND_SEGMENT_MAX_TOPICS : CapArgs]

\* sorted(seq, key=...): stable, ascending in the key; key[i] is the key of seq[i]
sorted(seq, key) ==
    LET n == Len(seq)
        Rank(i) == 1 + Cardinality({j \in 1..n :
                                       \/ key[j] < key[i]
                                       \/ key[j] = key[i] /\ j < i})
    IN [k \in 1..n |-> seq[CHOOSE i \in 1..n : Rank(i) = k]]

by_score_reverse(seq) == sorted(seq, [i \in 1..Len(seq) |-> 0 - seq[i].score])
\* variant: the final sort by start_time is left out
by_start_time_as_arrived(seq) == seq
\* variant: the final sort puts the latest start_time first
by_start_time_latest_first(seq) == sorted(seq, [i \in 1..Len(seq) |-> 0 - seq[i].start_time])
by_start_time(seq) == sorted(seq, [i \in 1..Len(seq) |-> seq[i].start_time])

\* seq[:n] for n >= 0
Take(seq, n) == SubSeq(seq, 1, Min(n, Len(seq)))

\* start_time < video_duration * boundary_ratio
before_boundary(c, video_duration) ==
    c.start_time * TEMPORAL_BOUNDARY_RATIO[2] < video_duration * TEMPORAL_BOUNDARY_RATIO[1]

split_by_temporal_boundary(candidates, video_duration) ==
    [first_segment |-> SelectSeq(candidates, LAMBDA c : before_boundary(c, video_duration)),
     second_segment |-> SelectSeq(candidates, LAMBDA c : ~before_boundary(c, video_duration))]

\* "config.X_SEGMENT_MAX_TOPICS or len(segment)": None and 0 are both falsy
cap_or_len(cap, segment) ==
    IF cap = {} \/ cap = {0} THEN Len(segment) ELSE CHOOSE n \in cap : TRUE

\* variant: the second segment's target ignores what the first segment took
second_target_full(second_max, requested_topics, first_target) ==
    Min(second_max, requested_topics)
\* second_target = min(second_max, requested_topics - first_target)
second_target(second_max, requested_topics, first_target) ==
    Min(second_max, requested_topics - first_target)

apply_temporal_distribution(candidates, video_duration, requested_topics, config_arg) ==
    LET config == IF config_arg = {} THEN CONFIG ELSE CHOOSE c \in config_arg : TRUE
        parts == split_by_temporal_boundary(candidates, video_duration)
        first_segment == parts.first_segment
        second_segment == parts.second_segment
        first_max == cap_or_len(config.FIRST_SEGMENT_MAX_TOPICS, first_segment)
        second_max == cap_or_len(config.SECOND_SEGMENT_MAX_TOPICS, second_segment)
        first_target == Min(first_max, requested_topics)
    IN IF candidates = <<>> THEN <<>>
       ELSE IF video_duration < 300
            THEN by_start_time(Take(by_score_reverse(candidates), requested_topics))
       ELSE IF config.FIRST_SEGMENT_MAX_TOPICS = {} /\ config.SECOND_SEGMENT_MAX_TOPICS = {}
            THEN by_start_time(candidates)
       ELSE IF first_segment = <<>>
            THEN by_start_time(Take(by_score_reverse(second_segment), requested_topics))
       ELSE IF second_segment = <<>>
            THEN by_start_time(Take(by_score_reverse(first_segment), requested_topics))
       ELSE by_start_time(
                Take(by_score_reverse(first_segment), first_target)
                \o Take(by_score_reverse(second_segment),
                        second_target(second_max, requested_topics, first_target)))

Topics ==
    UNION {{[i \in 1..n |-> [id |-> i, start_time |-> q[i][1], score |-> q[i][2]]]
            : q \in [1..n -> StartTimes \X Scores]}
           : n \in 0..MaxCands}

InitTemporal ==
    /\ InitPipeline
    /\ InitUsers
    /\ InitChunkIdle
    /\ InitRetryIdle
    /\ fnIn \in {[fn |-> "apply_temporal_distribution", candidates |-> c, video_duration |-> d,
                  requested_topics |-> n, config |-> g] :
                 c \in Topics, d \in TopicDurations, n \in RequestedTopics,
                 g \in {{}} \cup {{k} : k \in Configs}}
    /\ fnOut = NoReturn

\* one call of apply_temporal_distribution
ApplyTemporalDistribution ==
    /\ fnIn.fn = "apply_temporal_distribution"
    /\ ~fnOut.done
    /\ fnOut' = [done |-> TRUE,
                 value |-> apply_temporal_distribution(fnIn.candidates, fnIn.video_duration,
                                                       fnIn.requested_topics, fnIn.config)]
    /\ UNCHANGED <<fnIn, pipeVars, chunkVars, retry>>

NextTemporal == ApplyTemporalDistribution

SpecTemporal == InitTemporal /\ [][NextTemporal]_vars

\* ------------------------------------------------------------------ C12
TheConfig == IF fnIn.config = {} THEN CONFIG ELSE CHOOSE c \in fnIn.config : TRUE
FirstCap == TheConfig.FIRST_SEGMENT_MAX_TOPICS
SecondCap == TheConfig.SECOND_SEGMENT_MAX_TOPICS
CapValue(cap) == CHOOSE n \in cap : TRUE
Early(seq) == SelectSeq(seq, LAMBDA c : before_boundary(c, fnIn.video_duration))
Late(seq) == SelectSeq(seq, LAMBDA c : ~before_boundary(c, fnIn.video_duration))
LongContent == fnOut.done /\ fnIn.video_duration >= 300
TimeOrdered(seq) == \A k \in 1..(Len(seq) - 1) : seq[k].start_time <= seq[k + 1].start_time
\* the cap the code applies to a segment: the configured number, or the
\* segment's size when the cap is None or 0
EffectiveCap(cap, segment) == IF cap \in {{}, {0}} THEN Len(segment) ELSE CapValue(cap)

\* C12 (as stated): with both caps configured and content of 5 minutes or
\* more, never more than E topics start before 60% of the duration and never
\* more than L at or after it.
C12_CapsNeverExceeded ==
    (LongContent /\ FirstCap # {} /\ SecondCap # {}) =>
        /\ Len(Early(fnOut.value)) <= CapValue(FirstCap)
        /\ Len(Late(fnOut.value)) <= CapValue(SecondCap)

\* C12 (amended): with at least one cap configured and content of 5 minutes
\* or more, the result is time-ordered and
\*  - when both segments hold candidates, it has min(E', requested, early
\*    candidates) early topics and min(L', requested - min(E', requested),
\*    late candidates) late topics, where E' and L' are the configured caps,
\*    a cap of None or 0 standing for "all of the segment": so a positive cap
\*    is never exceeded;
\*  - when one segment holds no candidate, it has min(requested, candidates)
\*    topics, all from the other segment, whatever that segment's cap.
C12_CapsHoldUnlessASegmentIsEmpty ==
    (LongContent /\ ~(FirstCap = {} /\ SecondCap = {})) =>
        LET first == Early(fnIn.candidates)
            second == Late(fnIn.candidates)
            e == Min(EffectiveCap(FirstCap, first), fnIn.requested_topics)
            l == Min(EffectiveCap(SecondCap, second), fnIn.requested_topics - e)
        IN /\ TimeOrdered(fnOut.value)
           /\ IF first = <<>> \/ second = <<>>
              THEN Len(fnOut.value) = Min(fnIn.requested_topics, Len(fnIn.candidates))
              ELSE /\ Len(Early(fnOut.value)) = Min(e, Len(first))
                   /\ Len(Late(fnOut.value)) = Min(l, Len(second))
                   /\ FirstCap \notin {{}, {0}} => Len(Early(fnOut.value)) <= CapValue(FirstCap)
                   /\ SecondCap \notin {{}, {0}} => Len(Late(fnOut.value)) <= CapValue(SecondCap)

\* both caps are positive, both segments hold candidates, and a cap left a
\* candidate out
C12_Witness ==
    /\ LongContent
    /\ FirstCap \notin {{}, {0}} /\ SecondCap \notin {{}, {0}}
    /\ Early(fnIn.candidates) # <<>> /\ Late(fnIn.candidates) # <<>>
    /\ Len(Late(fnIn.candidates)) > CapValue(SecondCap)
    /\ fnIn.requested_topics = 5
    /\ Len(Late(fnOut.value)) = CapValue(SecondCap)

\* ------------------------------------------------------------------ C13
\* C13: with the default TranscriptConfig and requested_topics = 5, content
\* of 5 minutes or more yields at most 5 topics, at most 3 of them before the
\* 60% boundary and at most 2 at or after it.
C13_DefaultFiveThreeTwo ==
    (LongContent /\ TheConfig = CONFIG /\ fnIn.requested_topics = 5) =>
        /\ Len(fnOut.value) <= 5
        /\ Len(Early(fnOut.value)) <= 3
        /\ Len(Late(fnOut.value)) <= 2

\* ------------------------------------------------------------------ C31
\* C31: in every mode the topics apply_temporal_distribution returns are
\* sorted by non-decreasing start_time, and each of them is one of the input
\* candidates, returned no more than once
C31_TimeOrderedSelectionOfInput ==
    fnOut.done =>
        /\ TimeOrdered(fnOut.value)
        /\ \A k \in 1..Len(fnOut.value) :
              /\ fnOut.value[k].id \in DOMAIN fnIn.candidates
              /\ fnOut.value[k] = fnIn.candidates[fnOut.value[k].id]
        /\ \A k, l \in 1..Len(fnOut.value) : k # l => fnOut.value[k].id # fnOut.value[l].id

\* C31 witness: capped mode with candidates in both segments, given out of
\* time order, and a result of two topics or more
C31_Witness ==
    /\ LongContent
    /\ FirstCap \notin {{}, {0}} /\ SecondCap \notin {{}, {0}}
    /\ Early(fnIn.candidates) # <<>> /\ Late(fnIn.candidates) # <<>>
    /\ ~TimeOrdered(fnIn.candidates)
    /\ Len(fnOut.value) >= 2
    /\ Len(fnOut.value) < Len(fnIn.candidates)

\* =========================================================================
\* deduplicate_candidates followed by apply_temporal_distribution, on the
\* candidates of parallel chunk analyses in the order they arrive
\* =========================================================================
\* the candidate dicts the chunk analyses may produce
ArrivalTitles == {{<<"a">>}, {<<"A">>}}
ArrivalStartTimes == {100, 500}
ArrivalCandidates == [title : ArrivalTitles, start_time : ArrivalStartTimes, score : Scores]
ProducedLists == UNION {[1..n -> ArrivalCandidates] : n \in 0..MaxCands}
ArrivalDurations == {200, 600}
ArrivalRequested == {1, 2}
\* a configuration with a cap of one topic on either segment
OneEach == [FIRST_SEGMENT_MAX_TOPICS |-> {1}, SECOND_SEGMENT_MAX_TOPICS |-> {1}]
ArrivalConfigs == {{}, {OneEach}}

dedup_then_distribute(candidates, video_duration, requested_topics, config_arg) ==
    apply_temporal_distribution(deduplicate_candidates(candidates), video_duration,
                                requested_topics, config_arg)

InitArrival ==
    /\ InitPipeline
    /\ InitUsers
    /\ InitChunkIdle
    /\ InitRetryIdle
    /\ fnIn \in {[fn |-> "dedup_then_distribute", produced |-> c, delivered |-> {},
                  candidates |-> <<>>, video_duration |-> d, requested_topics |-> n,
                  config |-> g] :
                 c \in ProducedLists, d \in ArrivalDurations, n \in ArrivalRequested,
                 g \in ArrivalConfigs}
    /\ fnOut = NoReturn

\* a chunk analysis completes: its candidate is appended to the collected list
Deliver(i) ==
    /\ fnIn.fn = "dedup_then_distribute"
    /\ i \in DOMAIN fnIn.produced
    /\ i \notin fnIn.delivered
    /\ fnIn' = [fnIn EXCEPT !.delivered = @ \cup {i},
                            !.candidates = Append(@, fnIn.produced[i])]
    /\ UNCHANGED <<fnOut, pipeVars, chunkVars, retry>>

\* all analyses have completed: deduplicate, then allocate
DedupThenDistribute ==
    /\ fnIn.fn = "dedup_then_distribute"
    /\ fnIn.delivered = DOMAIN fnIn.produced
    /\ ~fnOut.done
    /\ fnOut' = [done |-> TRUE,
                 value |-> dedup_then_distribute(fnIn.candidates, fnIn.video_duration,
                                                 fnIn.requested_topics, fnIn.config)]
    /\ UNCHANGED <<fnIn, pipeVars, chunkVars, retry>>

NextArrival ==
    \/ \E i \in 1..(MaxCands + 1) : Deliver(i)
    \/ DedupThenDistribute

SpecArrival == InitArrival /\ [][NextArrival]_vars

\* ------------------------------------------------------------------ C28
\* every order in which the candidates of q can arrive
ArrivalOrders(q) ==
    LET n == Len(q)
        perms == {p \in [1..n -> 1..n] : \A i, j \in 1..n : p[i] = p[j] => i = j}
    IN {[i \in 1..n |-> q[p[i]]] : p \in perms}

\* the result of the two functions for every arrival order of the produced
\* candidates
ResultsOverOrders ==
    {dedup_then_distribute(q, fnIn.video_duration, fnIn.requested_topics, fnIn.config) :
        q \in ArrivalOrders(fnIn.produced)}

\* any two candidates that are not the same dict differ in title, in
\* start_time and in score
TellingFields(q) ==
    \A i, j \in 1..Len(q) :
        q[i] # q[j] => /\ get_title(q[i]) # get_title(q[j])
                       /\ q[i].start_time # q[j].start_time
                       /\ q[i].score # q[j].score

\* C28 as stated: deduplicate_candidates followed by
\* apply_temporal_distribution returns the same topics in the same order for
\* every arrival order of the same candidates
C28_SameResultForEveryOrder ==
    fnOut.done => ResultsOverOrders = {fnOut.value}

\* C28 amended: when any two candidates that are not identical differ in
\* title, in start_time and in score, deduplicate_candidates followed by
\* apply_temporal_distribution returns the same topics in the same order for
\* every arrival order of the same candidates, ordered by strictly increasing
\* start_time
C28_SameResultWhenFieldsTellApart ==
    (fnOut.done /\ TellingFields(fnIn.produced)) =>
        /\ ResultsOverOrders = {fnOut.value}
        /\ \A k \in 1..(Len(fnOut.value) - 1) :
              fnOut.value[k].start_time < fnOut.value[k + 1].start_time

\* C28 witness: candidates that the fields tell apart, one of them produced
\* twice, arrived in another order than produced, and the allocation kept
\* some of them and left one out
C28_Witness ==
    /\ fnOut.done
    /\ TellingFields(fnIn.produced)
    /\ fnIn.candidates # fnIn.produced
    /\ \E i, j \in DOMAIN fnIn.produced : i # j /\ fnIn.produced[i] = fnIn.produced[j]
    /\ \E i, j \in DOMAIN fnIn.produced : fnIn.produced[i] # fnIn.produced[j]
    /\ Len(fnOut.value) = 1

\* =========================================================================
\* merge_segments_into_sentences (transcript_processor.py)
\* =========================================================================
\* A text is a sequence of characters. Positions are 1-based; position 0
\* stands for Python's -1 ("not found"). Times are integer milliseconds; the
\* proportional split of the safety net is rounded down to a millisecond.
MAX_SENTENCE_DURATION_SECONDS == 24
MAX_SENTENCE_WORDS == 80
MAX_SEGMENTS_PER_SENTENCE == 20
Ms(seconds) == seconds * 1000

LowerLetters == <<"a", "b", "c", "d", "e", "f", "g", "h", "i", "j", "k", "l", "m", "n", "o", "p", "q", "r", "s", "t", "u", "v", "w", "x", "y", "z">>
UpperLetters == <<"A", "B", "C", "D", "E", "F", "G", "H", "I", "J", "K", "L", "M", "N", "O", "P", "Q", "R", "S", "T", "U", "V", "W", "X", "Y", "Z">>
Digits == {"0", "1", "2", "3", "4", "5", "6", "7", "8", "9"}
isdigit(c) == c \in Digits
isalpha(c) == \E k \in 1..26 : c = LowerLetters[k] \/ c = UpperLetters[k]
isalnum(c) == isalpha(c) \/ isdigit(c)
lower_char(c) ==
    IF \E k \in 1..26 : c = UpperLetters[k]
    THEN LowerLetters[CHOOSE k \in 1..26 : c = UpperLetters[k]]
    ELSE c
lower(text) == [k \in 1..Len(text) |-> lower_char(text[k])]

ABBREVIATIONS ==
    {<<"d", "r">>, <<"m", "r">>, <<"m", "r", "s">>, <<"m", "s">>,
     <<"p", "r", "o", "f">>, <<"v", "s">>, <<"e", "t", "c">>, <<"i", "n", "c">>,
     <<"l", "t", "d">>, <<"j", "r">>, <<"s", "r">>, <<"s", "t">>,
     <<"a", "v", "e">>, <<"b", "l", "v", "d">>, <<"a", "p", "t">>, <<"n", "o">>,
     <<"v", "o", "l">>, <<"p", "g">>, <<"f", "i", "g">>, <<"c", "h">>,
     <<"s", "e", "c">>, <<"d", "e", "p", "t">>, <<"g", "o", "v", "t">>, <<"u", "n", "i", "v">>,
     <<"c", "o", "r", "p">>, <<"c", "o">>, <<"j", "a", "n">>, <<"f", "e", "b">>,
     <<"m", "a", "r">>, <<"a", "p", "r">>, <<"j", "u", "n">>, <<"j", "u", "l">>,
     <<"a", "u", "g">>, <<"s", "e", "p">>, <<"o", "c", "t">>, <<"n", "o", "v">>,
     <<"d", "e", "c">>}
FALSE_PERIOD_SUFFIXES ==
    {<<".", "c", "o", "m">>, <<".", "o", "r", "g">>, <<".", "n", "e", "t">>, <<".", "a", "i">>,
     <<".", "i", "o">>, <<".", "c", "o">>, <<".", "e", "d", "u">>, <<".", "g", "o", "v">>,
     <<".", "j", "s">>, <<".", "t", "s">>, <<".", "p", "y">>, <<".", "r", "b">>,
     <<".", "g", "o">>, <<".", "r", "s">>, <<".", "c", "p", "p">>, <<".", "c">>,
     <<".", "h">>, <<".", "h", "t", "m", "l">>, <<".", "c", "s", "s">>, <<".", "j", "s", "o", "n">>,
     <<".", "x", "m", "l">>, <<".", "y", "a", "m", "l">>, <<".", "y", "m", "l">>, <<".", "m", "d">>,
     <<".", "t", "x", "t">>, <<".", "p", "d", "f">>, <<".", "d", "o", "c">>, <<".", "d", "o", "c", "x">>,
     <<".", "x", "l", "s">>, <<".", "x", "l", "s", "x">>, <<".", "p", "p", "t">>, <<".", "j", "p", "g">>,
     <<".", "j", "p", "e", "g">>, <<".", "p", "n", "g">>, <<".", "g", "i", "f">>, <<".", "s", "v", "g">>,
     <<".", "m", "p", "4">>, <<".", "m", "p", "3">>}

\* variant: no word counts as an abbreviation
in_abbreviations_never(word) == FALSE
\* "word_before_period in CONFIG.ABBREVIATIONS"
in_abbreviations(word) == word \in ABBREVIATIONS

is_sentence_ending_period(text, position) ==
    IF position < 1 \/ position > Len(text) THEN FALSE
    ELSE IF text[position] # "." THEN FALSE
    ELSE IF /\ position > 1 /\ position < Len(text)
            /\ isdigit(text[position - 1]) /\ isdigit(text[position + 1])
         THEN FALSE
    ELSE LET ext_end == CHOOSE e \in (position + 1)..(Len(text) + 1) :
                            /\ e = Len(text) + 1 \/ ~isalnum(text[e])
                            /\ \A k \in (position + 1)..(e - 1) : isalnum(text[k])
             potential_ext == lower(SubSeq(text, position, ext_end - 1))
             word_start == CHOOSE w \in 1..position :
                            /\ w = 1 \/ ~isalpha(text[w - 1])
                            /\ \A k \in w..(position - 1) : isalpha(text[k])
             word_before_period == lower(SubSeq(text, word_start, position - 1))
         IN IF potential_ext \in FALSE_PERIOD_SUFFIXES THEN FALSE
            ELSE IF in_abbreviations(word_before_period) THEN FALSE
            ELSE TRUE

\* variant: only a period can end a sentence
find_sentence_boundary_period_only(text) ==
    LET found == {i \in 1..Len(text) : text[i] = "." /\ is_sentence_ending_period(text, i)}
    IN IF found = {} THEN 0 ELSE CHOOSE i \in found : \A j \in found : i <= j
find_sentence_boundary(text) ==
    LET found == {i \in 1..Len(text) :
                     \/ text[i] \in {"?", "!"}
                     \/ text[i] = "." /\ is_sentence_ending_period(text, i)}
    IN IF found = {} THEN 0 ELSE CHOOSE i \in found : \A j \in found : i <= j

\* str.strip()
strip(text) ==
    LET solid == {i \in 1..Len(text) : text[i] # " "}
    IN IF solid = {} THEN <<>>
       ELSE SubSeq(text, CHOOSE i \in solid : \A j \in solid : i <= j,
                         CHOOSE i \in solid : \A j \in solid : j <= i)

\* str.split(): the maximal runs of non-blank characters
split(text) ==
    LET starts == {i \in 1..Len(text) : text[i] # " " /\ (i = 1 \/ text[i - 1] = " ")}
        ends == {i \in 1..Len(text) : text[i] # " " /\ (i = Len(text) \/ text[i + 1] = " ")}
        start_of(k) == CHOOSE i \in starts : Cardinality({j \in starts : j < i}) = k - 1
        end_of(k) == CHOOSE i \in ends : Cardinality({j \in ends : j < i}) = k - 1
    IN [k \in 1..Cardinality(starts) |-> SubSeq(text, start_of(k), end_of(k))]

\* len(text.split())
word_count(text) ==
    Cardinality({i \in 1..Len(text) : text[i] # " " /\ (i = 1 \/ text[i - 1] = " ")})

\* " ".join(texts)
RECURSIVE join(_)
join(texts) ==
    IF texts = <<>> THEN <<>>
    ELSE IF Len(texts) = 1 THEN texts[1]
    ELSE LET half == Len(texts) \div 2
         IN join(SubSeq(texts, 1, half)) \o <<" ">> \o join(SubSeq(texts, half + 1, Len(texts)))

RECURSIVE sum_words(_)
sum_words(texts) ==
    IF texts = <<>> THEN 0 ELSE word_count(texts[1]) + sum_words(Tail(texts))

\* the locals of merge_segments_into_sentences; current_start is {} for None
MergeStart == [sentences |-> <<>>, current_texts |-> <<>>, current_start |-> {},
               current_duration |-> 0, current_segment_count |-> 0]

\* variant: the accumulated duration is carried over into the next sentence
finalize_sentence_running_duration(st) ==
    [sentences |-> IF st.current_texts # <<>>
                   THEN Append(st.sentences,
                               [text |-> join(st.current_texts),
                                start |-> CHOOSE s \in st.current_start : TRUE,
                                duration |-> st.current_duration])
                   ELSE st.sentences,
     current_texts |-> <<>>, current_start |-> {},
     current_duration |-> st.current_duration, current_segment_count |-> 0]
finalize_sentence(st) ==
    [sentences |-> IF st.current_texts # <<>>
                   THEN Append(st.sentences,
                               [text |-> join(st.current_texts),
                                start |-> CHOOSE s \in st.current_start : TRUE,
                                duration |-> st.current_duration])
                   ELSE st.sentences,
     current_texts |-> <<>>, current_start |-> {},
     current_duration |-> 0, current_segment_count |-> 0]

should_force_split(st) ==
    \/ st.current_duration >= Ms(MAX_SENTENCE_DURATION_SECONDS)
    \/ st.current_segment_count >= MAX_SEGMENTS_PER_SENTENCE
    \/ sum_words(st.current_texts) >= MAX_SENTENCE_WORDS

\* the body of "for segment in segments"
merge_one(st, segment) ==
    LET text == strip(segment.text)
        started == [st EXCEPT !.current_start = IF @ = {} THEN {segment.start} ELSE @]
        split_first == IF should_force_split(started)
                       THEN [finalize_sentence(started) EXCEPT !.current_start = {segment.start}]
                       ELSE started
        added == [split_first EXCEPT !.current_texts = Append(@, text),
                                     !.current_duration = @ + segment.duration,
                                     !.current_segment_count = @ + 1]
    IN IF text = <<>> THEN st
       ELSE IF find_sentence_boundary(join(added.current_texts)) > 0
            THEN finalize_sentence(added)
            ELSE added

RECURSIVE merge_loop(_, _, _)
merge_loop(segments, i, st) ==
    IF i > Len(segments) THEN st
    ELSE LET after == merge_one(st, segments[i])
         IN \* the iteration is evaluated before the next one starts
            IF Len(after.sentences) >= 0 THEN merge_loop(segments, i + 1, after) ELSE after

\* the safety net applied to one sentence
safety_net(sentence) ==
    IF sentence.duration > Ms(MAX_SENTENCE_DURATION_SECONDS)
    THEN LET words == split(sentence.text)
             n == Len(words)
             chunks == (n + MAX_SENTENCE_WORDS - 1) \div MAX_SENTENCE_WORDS
         IN [c \in 1..chunks |->
                LET i == (c - 1) * MAX_SENTENCE_WORDS
                    chunk_words == SubSeq(words, i + 1, Min(i + MAX_SENTENCE_WORDS, n))
                IN [text |-> join(chunk_words),
                    start |-> sentence.start + (sentence.duration * i) \div n,
                    duration |-> (sentence.duration * Len(chunk_words)) \div n]]
    ELSE <<sentence>>

RECURSIVE final_sentences(_)
final_sentences(sentences) ==
    IF sentences = <<>> THEN <<>>
    ELSE safety_net(sentences[1]) \o final_sentences(Tail(sentences))

merge_segments_into_sentences(segments) ==
    IF segments = <<>> THEN <<>>
    ELSE final_sentences(finalize_sentence(merge_loop(segments, 1, MergeStart)).sentences)

\* Inputs: a run of equal caption fragments followed by a short tail.
MaxTail == 2
NineWords == <<"w", " ", "w", " ", "w", " ", "w", " ", "w", " ", "w", " ", "w", " ", "w", " ", "w">>
FillerSegs == {[text |-> <<"w">>, duration |-> 1000],
               [text |-> NineWords, duration |-> 2000],
               [text |-> <<"w">>, duration |-> 5000]}
RepeatCounts == {0, 9, 19, 30}
TailSegs == {[text |-> <<"o", "k", ".">>, duration |-> 1000],
             [text |-> <<"h", "m", "?">>, duration |-> 1000],
             [text |-> <<"D", "r", ".">>, duration |-> 1000],
             [text |-> <<"2", ".", "5">>, duration |-> 1000],
             [text |-> <<"a", ".", "p", "y">>, duration |-> 1000],
             [text |-> <<"w">>, duration |-> 30000],
             [text |-> <<" ">>, duration |-> 1000],
             [text |-> <<"g", "o", "!", " ", "w">>, duration |-> 1000]}

\* start of each fragment: the end of the one before it
RECURSIVE Timed(_, _)
Timed(frags, at) ==
    IF frags = <<>> THEN <<>>
    ELSE <<[text |-> frags[1].text, start |-> at, duration |-> frags[1].duration]>>
         \o Timed(Tail(frags), at + frags[1].duration)

Captions ==
    {Timed([k \in 1..n |-> f] \o tail, 0) :
        f \in FillerSegs, n \in RepeatCounts,
        tail \in UNION {[1..m -> TailSegs] : m \in 0..MaxTail}}

InitMerge ==
    /\ InitPipeline
    /\ InitUsers
    /\ InitChunkIdle
    /\ InitRetryIdle
    /\ fnIn \in {[fn |-> "merge_segments_into_sentences", segments |-> c] : c \in Captions}
    /\ fnOut = NoReturn

\* one call of merge_segments_into_sentences
MergeSegments ==
    /\ fnIn.fn = "merge_segments_into_sentences"
    /\ ~fnOut.done
    /\ fnOut' = [done |-> TRUE, again |-> FALSE,
                 value |-> merge_segments_into_sentences(fnIn.segments)]
    /\ UNCHANGED <<fnIn, pipeVars, chunkVars, retry>>

\* a second call, on the sentences the first call returned
MergeAgain ==
    /\ fnIn.fn = "merge_segments_into_sentences"
    /\ fnOut.done
    /\ ~fnOut.again
    /\ fnOut' = [done |-> TRUE, again |-> TRUE, value |-> fnOut.value,
                 second |-> merge_segments_into_sentences(fnOut.value)]
    /\ UNCHANGED <<fnIn, pipeVars, chunkVars, retry>>

NextMerge == MergeSegments \/ MergeAgain

SpecMerge == InitMerge /\ [][NextMerge]_vars

\* ------------------------------------------------------------- C14..C17
\* the fragments that carry text, and the text they spell when joined
Spoken == SelectSeq(fnIn.segments, LAMBDA g : strip(g.text) # <<>>)
SpokenText == join([k \in 1..Len(Spoken) |-> strip(Spoken[k].text)])
RECURSIVE SumDuration(_, _)
SumDuration(segs, k) == IF k = 0 THEN 0 ELSE segs[k].duration + SumDuration(segs, k - 1)
RECURSIVE SumWordCount(_, _)
SumWordCount(segs, k) == IF k = 0 THEN 0 ELSE word_count(segs[k].text) + SumWordCount(segs, k - 1)

\* the three kinds of period that end no sentence
DecimalPoint(t, p) ==
    p > 1 /\ p < Len(t) /\ t[p - 1] \in Digits /\ t[p + 1] \in Digits
StartsListedSuffix(t, p) ==
    \E x \in FALSE_PERIOD_SUFFIXES :
        /\ p + Len(x) - 1 <= Len(t)
        /\ lower(SubSeq(t, p, p + Len(x) - 1)) = x
        /\ p + Len(x) > Len(t) \/ ~isalnum(t[p + Len(x)])
FollowsAbbreviation(t, p) ==
    \E a \in ABBREVIATIONS :
        /\ p - Len(a) >= 1
        /\ lower(SubSeq(t, p - Len(a), p - 1)) = a
        /\ p - Len(a) = 1 \/ ~isalpha(t[p - Len(a) - 1])
FalsePeriod(t, p) ==
    t[p] = "." /\ (DecimalPoint(t, p) \/ StartsListedSuffix(t, p) \/ FollowsAbbreviation(t, p))
TrueMark(t, p) == t[p] \in {"?", "!"} \/ (t[p] = "." /\ ~FalsePeriod(t, p))
TrueMarks(t) == {p \in 1..Len(t) : TrueMark(t, p)}
EndsInPunctuation(t) == t # <<>> /\ t[Len(t)] \in {".", "?", "!"}
EndsInTrueMark(t) == t # <<>> /\ TrueMark(t, Len(t))

\* C14 (as stated): re-running the merger on its own output, when every
\* sentence of that output ends in '.', '?' or '!', returns the same list.
C14_RerunReturnsSame ==
    (fnOut.done /\ fnOut.again /\ \A k \in 1..Len(fnOut.value) : EndsInPunctuation(fnOut.value[k].text))
        => fnOut.second = fnOut.value

\* C14 (amended): re-running the merger on its own output returns the same
\* list of sentences (count, text, start, duration) when every sentence of
\* that output ends in '?', '!' or a period that is a sentence boundary, that
\* is, a period that does not follow a token of the abbreviation list.
C14_RerunReturnsSameAfterTrueMarks ==
    (fnOut.done /\ fnOut.again /\ \A k \in 1..Len(fnOut.value) : EndsInTrueMark(fnOut.value[k].text))
        => fnOut.second = fnOut.value

\* several sentences, one of them merged from more than one fragment, all
\* ending at a true mark, came back unchanged
C14_Witness ==
    /\ fnOut.done /\ fnOut.again
    /\ Len(fnOut.value) >= 2
    /\ Len(Spoken) > Len(fnOut.value)
    /\ \A k \in 1..Len(fnOut.value) : EndsInTrueMark(fnOut.value[k].text)
    /\ fnOut.second = fnOut.value

\* the text has a period that ends no sentence and its only true mark is
\* its last character
FalsePeriodsThenOneMark ==
    /\ fnOut.done
    /\ LET t == SpokenText
       IN /\ \E p \in 1..Len(t) : FalsePeriod(t, p)
          /\ TrueMarks(t) = {Len(t)}

\* is_sentence_ending_period rejects exactly the three kinds of period
PeriodsClassified ==
    LET t == SpokenText
    IN \A p \in 1..Len(t) :
        t[p] = "." => (is_sentence_ending_period(t, p) <=> ~FalsePeriod(t, p))

\* no force-split threshold is reached before the last fragment is added,
\* and the whole is not both longer than the duration cap and the word cap
BelowThresholds ==
    LET said == Spoken
    IN /\ \A k \in 1..(Len(said) - 1) :
            /\ SumDuration(said, k) < Ms(MAX_SENTENCE_DURATION_SECONDS)
            /\ k < MAX_SEGMENTS_PER_SENTENCE
            /\ SumWordCount(said, k) < MAX_SENTENCE_WORDS
       /\ ~(/\ SumDuration(said, Len(said)) > Ms(MAX_SENTENCE_DURATION_SECONDS)
            /\ SumWordCount(said, Len(said)) > MAX_SENTENCE_WORDS)

\* C15 (as stated): decimal points, periods starting a listed suffix and
\* periods after a listed abbreviation are no boundaries, so a text with such
\* periods and exactly one true terminal mark, at its end, merges into
\* exactly one sentence.
C15_OneSentenceUpToTheTrueMark ==
    fnOut.done =>
        /\ PeriodsClassified
        /\ FalsePeriodsThenOneMark => Len(fnOut.value) = 1

\* C15 (amended): the three kinds of period are no boundaries, and a text
\* with such periods and exactly one true terminal mark, at its end, merges
\* into exactly one sentence (the joined text, starting at the first fragment,
\* lasting the sum of the durations) provided the fragments before the last
\* one stay below 24 s, 20 fragments and 80 words; otherwise it is force-split.
C15_OneSentenceBelowThresholds ==
    fnOut.done =>
        /\ PeriodsClassified
        /\ FalsePeriodsThenOneMark =>
            IF BelowThresholds
            THEN /\ Len(fnOut.value) = 1
                 /\ fnOut.value[1].text = SpokenText
                 /\ fnOut.value[1].start = Spoken[1].start
                 /\ fnOut.value[1].duration = SumDuration(Spoken, Len(Spoken))
            ELSE Len(fnOut.value) > 1

\* a period after an abbreviation was passed over and several fragments
\* became one sentence
C15_Witness ==
    /\ FalsePeriodsThenOneMark
    /\ BelowThresholds
    /\ Len(Spoken) >= 2
    /\ \E p \in 1..Len(SpokenText) : FollowsAbbreviation(SpokenText, p)
    /\ Len(fnOut.value) = 1

\* C16: for fragments without terminal punctuation, every returned sentence
\* has at most MAX_SENTENCE_WORDS words.
C16_AtMostMaxWords ==
    (fnOut.done /\ \A k \in 1..Len(fnIn.segments) :
                      \A p \in 1..Len(fnIn.segments[k].text) :
                          fnIn.segments[k].text[p] \notin {".", "?", "!"})
        => \A k \in 1..Len(fnOut.value) : word_count(fnOut.value[k].text) <= MAX_SENTENCE_WORDS

\* C17: every returned sentence lasts at most MAX_SENTENCE_DURATION_SECONDS.
C17_AtMostMaxDuration ==
    fnOut.done =>
        \A k \in 1..Len(fnOut.value) :
            fnOut.value[k].duration <= Ms(MAX_SENTENCE_DURATION_SECONDS)

\* =========================================================================
\* merge_segments_into_sentences on captions with long fragments
\* =========================================================================
\* Inputs: a run of equal caption fragments followed by a short tail that may
\* hold a fragment of many words or of long duration.
SpanRepeatCounts == {0, 8, 19}
SpanTailSegs == {[text |-> <<"o", "k", ".">>, duration |-> 1000],
                 [text |-> NineWords, duration |-> 30000],
                 [text |-> <<"w">>, duration |-> 30000],
                 [text |-> <<" ">>, duration |-> 1000]}
SpanCaptions ==
    {Timed([k \in 1..n |-> f] \o tail, 0) :
        f \in FillerSegs, n \in SpanRepeatCounts,
        tail \in UNION {[1..m -> SpanTailSegs] : m \in 0..MaxTail}}

InitSpan ==
    /\ InitPipeline
    /\ InitUsers
    /\ InitChunkIdle
    /\ InitRetryIdle
    /\ fnIn \in {[fn |-> "merge_segments_into_sentences", segments |-> c] : c \in SpanCaptions}
    /\ fnOut = NoReturn

SpecSpan == InitSpan /\ [][NextMerge]_vars

\* ------------------------------------------------------------------ C33
\* the text, start and summed duration of the k fragments of sp from the p-th
FragText(sp, p, k) == join([x \in 1..k |-> strip(sp[p + x - 1].text)])
RECURSIVE FragDuration(_, _, _)
FragDuration(sp, p, k) ==
    IF k = 0 THEN 0 ELSE sp[p + k - 1].duration + FragDuration(sp, p, k - 1)

\* out[j] spans the k fragments from the p-th
SpansFragments(out, sp, j, p, k) ==
    /\ out[j].text = FragText(sp, p, k)
    /\ out[j].start = sp[p].start
    /\ out[j].duration = FragDuration(sp, p, k)

\* the sentences from out[j] on span, one after the other, the fragments from
\* the p-th on
RECURSIVE EachSpansItsFragments(_, _, _, _)
EachSpansItsFragments(out, sp, j, p) ==
    IF j > Len(out) THEN p > Len(sp)
    ELSE \E k \in 1..(Len(sp) - p + 1) :
            /\ SpansFragments(out, sp, j, p, k)
            /\ EachSpansItsFragments(out, sp, j + 1, p + k)

\* out[j], out[j+1], ... are the pieces of at most MAX_SENTENCE_WORDS words of
\* the k fragments from the p-th, each with the share of the fragments' span
\* that its words make up
PiecesOfFragments(out, sp, j, p, k) ==
    LET words == split(FragText(sp, p, k))
        n == Len(words)
        d == FragDuration(sp, p, k)
        m == (n + MAX_SENTENCE_WORDS - 1) \div MAX_SENTENCE_WORDS
    IN /\ j + m - 1 <= Len(out)
       /\ \A c \in 1..m :
            LET i == (c - 1) * MAX_SENTENCE_WORDS
                mine == SubSeq(words, i + 1, Min(i + MAX_SENTENCE_WORDS, n))
            IN /\ out[j + c - 1].text = join(mine)
               /\ out[j + c - 1].start = sp[p].start + (d * i) \div n
               /\ out[j + c - 1].duration = (d * Len(mine)) \div n

PieceCount(sp, p, k) ==
    (Len(split(FragText(sp, p, k))) + MAX_SENTENCE_WORDS - 1) \div MAX_SENTENCE_WORDS

RECURSIVE SpansOrPieces(_, _, _, _)
SpansOrPieces(out, sp, j, p) ==
    IF j > Len(out) THEN p > Len(sp)
    ELSE \E k \in 1..(Len(sp) - p + 1) :
            IF FragDuration(sp, p, k) > Ms(MAX_SENTENCE_DURATION_SECONDS)
            THEN /\ PiecesOfFragments(out, sp, j, p, k)
                 /\ SpansOrPieces(out, sp, j + PieceCount(sp, p, k), p + k)
            ELSE /\ SpansFragments(out, sp, j, p, k)
                 /\ SpansOrPieces(out, sp, j + 1, p + k)

RECURSIVE TotalDuration(_, _)
TotalDuration(seq, k) == IF k = 0 THEN 0 ELSE seq[k].duration + TotalDuration(seq, k - 1)

\* C33 as stated: each sentence the merger returns starts where its first
\* fragment starts and lasts as long as its fragments together, so the
\* durations of the sentences add up to those of the non-empty fragments
C33_EachSentenceSpansItsFragments ==
    (fnOut.done /\ ~fnOut.again) =>
        /\ EachSpansItsFragments(fnOut.value, Spoken, 1, 1)
        /\ TotalDuration(fnOut.value, Len(fnOut.value)) = TotalDuration(Spoken, Len(Spoken))

\* C33 amended: the non-empty fragments fall into consecutive groups. A group
\* lasting no more than MAX_SENTENCE_DURATION_SECONDS is returned as one
\* sentence that starts where its first fragment starts and lasts as long as
\* its fragments together; a longer group is returned as pieces of at most
\* MAX_SENTENCE_WORDS words, each starting and lasting in proportion to the
\* words before it and in it. When no group is longer, the durations of the
\* sentences add up to those of the non-empty fragments
C33_SpansUnlessCutBySafetyNet ==
    (fnOut.done /\ ~fnOut.again) =>
        /\ SpansOrPieces(fnOut.value, Spoken, 1, 1)
        /\ (\A j \in 1..Len(fnOut.value) :
                fnOut.value[j].duration <= Ms(MAX_SENTENCE_DURATION_SECONDS))
              => TotalDuration(fnOut.value, Len(fnOut.value))
                    = TotalDuration(Spoken, Len(Spoken))

\* C33 witness: several fragments were merged into one sentence of their
\* summed duration, a fragment without text was passed over, and the
\* durations add up
C33_Witness ==
    /\ fnOut.done /\ ~fnOut.again
    /\ Len(Spoken) < Len(fnIn.segments)
    /\ Len(fnOut.value) >= 2
    /\ Len(fnOut.value) < Len(Spoken)
    /\ EachSpansItsFragments(fnOut.value, Spoken, 1, 1)
    /\ TotalDuration(fnOut.value, Len(fnOut.value)) = TotalDuration(Spoken, Len(Spoken))

\* =========================================================================
\* YouTubeService._execute_with_retry, called by get_video_metadata
\* (youtube_service.py)
\* =========================================================================
MAX_RETRIES == 5
INITIAL_RETRY_DELAY == 5
MAX_RETRY_DELAY == 60

\* What one call of the wrapped function does: it returns, or raises
\*   "rate_limit"  an exception whose text holds 429 / too many requests /
\*                 rate limit,
\*   "blocked"     an exception telling that access is refused,
\*   "unavailable" any other exception,
\*   "typed"       a YouTubeServiceError of its own (duration limit).
ErrorKinds == {"rate_limit", "blocked", "unavailable", "typed"}
CallOutcomes == {"ok"} \cup ErrorKinds

\* variant: an access-blocked error is retried as well
is_rate_limit_or_blocked(e) == e \in {"rate_limit", "blocked"}
\* variant: every error counts as a rate limit
is_rate_limit_any(e) == TRUE
\* "'429' in error_str or 'too many requests' in error_str or 'rate limit' in error_str"
is_rate_limit(e) == e = "rate_limit"

\* variant: the last retry is not made
may_retry_one_less(attempt) == attempt < MAX_RETRIES - 2
\* "if attempt < MAX_RETRIES - 1"
may_retry(attempt) == attempt < MAX_RETRIES - 1

\* delay = min(INITIAL_RETRY_DELAY * (2 ** attempt), MAX_RETRY_DELAY), in ms
retry_delay(attempt) == Ms(Min(INITIAL_RETRY_DELAY * (2 ^ attempt), MAX_RETRY_DELAY))
\* jitter = random.uniform(0, delay * 0.1): the two ends of the range
Jitters(delay) == {0, delay \div 10}

\* get_video_metadata: a YouTubeServiceError passes, any other exception is
\* wrapped into one
surfaced(raised) == "YouTubeServiceError"

InitRetry ==
    /\ InitPipeline
    /\ InitUsers
    /\ InitChunkIdle
    /\ InitCallIdle
    /\ retry = [NoRetry EXCEPT !.pc = "call"]

\* one iteration of "for attempt in range(MAX_RETRIES)": the wrapped call
\* and the except clause
Attempt(outcome) ==
    /\ retry.pc = "call"
    /\ retry.attempt < MAX_RETRIES
    /\ LET called == [retry EXCEPT !.calls = @ + 1]
           failed == [called EXCEPT !.last_error = outcome,
                                    !.first_error = IF @ = "none" THEN outcome ELSE @]
       IN retry' =
            IF outcome = "ok"
            THEN [called EXCEPT !.pc = "done", !.result = "returned"]
            ELSE IF is_rate_limit(outcome)
                 THEN IF may_retry(retry.attempt)
                      THEN [failed EXCEPT !.pc = "sleep"]
                      ELSE [failed EXCEPT !.pc = "done", !.raised = "YouTubeServiceError",
                                          !.result = surfaced("YouTubeServiceError")]
                 ELSE [failed EXCEPT !.pc = "done",
                                     !.raised = IF outcome = "typed" THEN "YouTubeServiceError"
                                                ELSE "Exception",
                                     !.result = surfaced(outcome)]
    /\ UNCHANGED <<pipeVars, chunkVars, callVars>>

\* time.sleep(total_delay); continue. A loop that runs out of attempts falls
\* through to the raise after it.
Backoff(jitter) ==
    /\ retry.pc = "sleep"
    /\ jitter \in Jitters(retry_delay(retry.attempt))
    /\ retry' = IF retry.attempt + 1 < MAX_RETRIES
                THEN [retry EXCEPT !.pc = "call", !.attempt = @ + 1,
                                   !.slept = @ + retry_delay(retry.attempt) + jitter]
                ELSE [retry EXCEPT !.pc = "done", !.attempt = @ + 1,
                                   !.slept = @ + retry_delay(retry.attempt) + jitter,
                                   !.raised = "YouTubeServiceError",
                                   !.result = surfaced("YouTubeServiceError")]
    /\ UNCHANGED <<pipeVars, chunkVars, callVars>>

NextRetry ==
    \/ \E outcome \in CallOutcomes : Attempt(outcome)
    \/ \E jitter \in Jitters(retry_delay(retry.attempt)) : Backoff(jitter)

SpecRetry == InitRetry /\ [][NextRetry]_vars

\* ------------------------------------------------------------------ C18
\* C18: the wrapped call is invoked at most MAX_RETRIES times; when every
\* attempt fails with a rate-limit error the wrapper stops after the last
\* attempt and raises a YouTubeServiceError; after the first successful
\* attempt it returns that result, and a finished wrapper makes no further
\* call.
C18_AtMostMaxRetriesCalls ==
    /\ [](/\ retry.calls <= MAX_RETRIES
          /\ (retry.pc = "done" /\ retry.last_error = "rate_limit" /\ retry.result # "returned")
                => /\ retry.calls = MAX_RETRIES
                   /\ retry.raised = "YouTubeServiceError"
          /\ retry.result = "returned" => retry.pc = "done"
          /\ retry.pc = "sleep" => retry.last_error = "rate_limit" /\ retry.calls < MAX_RETRIES)
    /\ [][/\ retry.pc = "done" => retry' = retry
          /\ retry'.calls # retry.calls =>
                /\ retry'.calls = retry.calls + 1
                /\ retry.first_error \in {"none", "rate_limit"}
                /\ retry.last_error \in {"none", "rate_limit"}]_vars

\* five rate-limited attempts ended in a YouTubeServiceError
C18_Witness ==
    /\ retry.pc = "done"
    /\ retry.calls = MAX_RETRIES
    /\ retry.last_error = "rate_limit"
    /\ retry.raised = "YouTubeServiceError"
    /\ retry.slept >= Ms(75)

\* ------------------------------------------------------------------ C19
\* C19: when the wrapped call fails with an error that is neither
\* rate-limited nor blocked, no further attempt is made and the failure
\* reaches the caller of get_video_metadata at once as a YouTubeServiceError;
\* when it is the first failure the wrapped call was invoked exactly once.
C19_OtherErrorsSurfaceAtOnce ==
    /\ retry.last_error \in {"unavailable", "typed"} =>
            /\ retry.pc = "done"
            /\ retry.result = "YouTubeServiceError"
            /\ retry.calls = retry.attempt + 1
    /\ retry.first_error \in {"unavailable", "typed"} =>
            /\ retry.calls = 1
            /\ retry.slept = 0

\* the first call raised an ordinary exception and the caller got a
\* YouTubeServiceError
C19_Witness ==
    /\ retry.pc = "done"
    /\ retry.first_error = "unavailable"
    /\ retry.calls = 1
    /\ retry.raised = "Exception"
    /\ retry.result = "YouTubeServiceError"

TranscriptStart == [done |-> FALSE, source |-> "api", api_calls |-> 0, api_error |-> "none",
                    value |-> "none"]

InitFallback ==
    /\ InitPipeline
    /\ InitUsers
    /\ InitChunkIdle
    /\ fnIn = [fn |-> "get_transcript"]
    /\ fnOut = TranscriptStart
    /\ retry = [NoRetry EXCEPT !.pc = "call"]

\* variant: the except clause is entered after any failed attempt
api_raised_per_attempt(rt) == rt.last_error # "none" /\ rt.result # "returned"
\* lines 220-224: "except Exception" around _get_transcript_via_api, whose
\* return value is that of _execute_with_retry(_fetch)
api_raised(rt) == rt.pc = "done" /\ rt.result # "returned"

\* lines 222-228: the primary source raised; _get_transcript_via_ytdlp starts
\* a retry wrapper of its own
TryYtdlp ==
    /\ fnIn.fn = "get_transcript"
    /\ ~fnOut.done
    /\ fnOut.source = "api"
    /\ api_raised(retry)
    /\ fnOut' = [fnOut EXCEPT !.source = "ytdlp", !.api_calls = retry.calls,
                              !.api_error = retry.last_error]
    /\ retry' = [NoRetry EXCEPT !.pc = "call"]
    /\ UNCHANGED <<pipeVars, chunkVars, fnIn>>

\* lines 221, 228-232: the transcript of the source that answered, or a
\* YouTubeServiceError when the fallback failed as well
ReturnTranscript ==
    /\ fnIn.fn = "get_transcript"
    /\ ~fnOut.done
    /\ retry.pc = "done"
    /\ retry.result = "returned" \/ fnOut.source = "ytdlp"
    /\ fnOut' = [fnOut EXCEPT !.done = TRUE,
                              !.value = IF retry.result = "returned" THEN "transcript"
                                        ELSE "YouTubeServiceError"]
    /\ UNCHANGED <<pipeVars, chunkVars, fnIn, retry>>

NextFallback ==
    \/ \E outcome \in CallOutcomes : Attempt(outcome)
    \/ \E jitter \in Jitters(retry_delay(retry.attempt)) : Backoff(jitter)
    \/ TryYtdlp
    \/ ReturnTranscript

SpecFallback == InitFallback /\ [][NextFallback]_vars

\* ------------------------------------------------------------------ C24
\* C24 as stated: yt-dlp is attempted only after the primary source was
\* called MAX_RETRIES times
C24_FallbackOnlyAfterWholeBudget ==
    fnOut.source = "ytdlp" => fnOut.api_calls = MAX_RETRIES

\* C24 amended: yt-dlp is attempted only after the retry wrapper of the
\* primary source has given up, which is after MAX_RETRIES rate-limited
\* attempts or after the first attempt that failed with another error; it is
\* never attempted between two primary attempts (no primary call follows a
\* yt-dlp call) and never when the primary source returned a transcript
C24_FallbackOnlyAfterPrimaryGaveUp ==
    /\ [](fnOut.source = "ytdlp" =>
            \/ fnOut.api_calls = MAX_RETRIES /\ fnOut.api_error = "rate_limit"
            \/ /\ fnOut.api_calls \in 1..MAX_RETRIES
               /\ fnOut.api_error \in ErrorKinds \ {"rate_limit"})
    /\ []((fnOut.done /\ fnOut.source = "api") =>
            fnOut.value = "transcript" /\ fnOut.api_calls = 0)
    /\ [][/\ fnOut.source = "ytdlp" => fnOut'.source = "ytdlp"
          /\ (fnOut.source = "api" /\ fnOut'.source = "ytdlp")
                => /\ retry.pc = "done"
                   /\ retry.result # "returned"
                   /\ retry'.calls = 0
          /\ (fnOut.source = "api" /\ retry.result = "returned")
                => fnOut'.source = "api"
          /\ fnOut.done => UNCHANGED <<fnOut, retry>>]_vars

\* C24 witness: the primary source failed on its first attempt with an error
\* that is not retried, and yt-dlp then returned the transcript
C24_Witness ==
    /\ fnOut.done
    /\ fnOut.source = "ytdlp"
    /\ fnOut.api_calls = 1
    /\ fnOut.api_error = "unavailable"
    /\ fnOut.value = "transcript"
    /\ retry.calls >= 1

\* =========================================================================
\* _generate_ai_content_parallel and the two AINotesService calls it submits
\* (video_processor.py, ai_notes_service.py)
\* =========================================================================
TaskNames == {"chapters", "structured"}
\* the durations tried: below, at and above the 600 s that selects the
\* chunked chapter generation
GenerationDurations == {300, 600, 900}

NoTask == [pc |-> "submitted", calls |-> <<>>, error |-> "none"]
GenerateStart == [done |-> FALSE, tasks |-> [t \in TaskNames |-> NoTask], completed |-> <<>>,
                  value |-> "none", failed_task |-> "none"]

InitGenerate ==
    /\ InitPipeline
    /\ InitUsers
    /\ InitChunkIdle
    /\ InitRetryIdle
    /\ fnIn \in {[fn |-> "_generate_ai_content_parallel", video_duration |-> d, segments |-> g]
                    : d \in GenerationDurations, g \in BOOLEAN}
    /\ fnOut = GenerateStart

\* AINotesService.client: the one client every generation call goes through
client == "openai"

TaskEnds(t, pc, error) ==
    [fnOut EXCEPT !.tasks[t].pc = pc, !.tasks[t].error = error,
                  !.completed = Append(@, t)]

\* the pool starts a task. generate_chapters (lines 453-470) takes the chunked
\* path above 600 s, and AINotesService has no attribute
\* generate_chapters_chunked; both service methods refuse an empty input
\* (ai_notes_service.py lines 136-137, 313-314)
StartTask(t) ==
    /\ fnIn.fn = "_generate_ai_content_parallel"
    /\ fnOut.tasks[t].pc = "submitted"
    /\ fnOut' = IF t = "chapters" /\ fnIn.video_duration > 600
                THEN TaskEnds(t, "raised", "AttributeError")
                ELSE IF ~fnIn.segments
                THEN TaskEnds(t, "raised", "empty_input")
                ELSE [fnOut EXCEPT !.tasks[t].pc = "calling"]
    /\ UNCHANGED <<pipeVars, chunkVars, fnIn, retry>>

\* self.client.chat.completions.create(...) (lines 214, 376): any exception
\* becomes an AINotesServiceError of the task (lines 277-280, 419-422)
CallClient(t, outcome) ==
    /\ fnIn.fn = "_generate_ai_content_parallel"
    /\ fnOut.tasks[t].pc = "calling"
    /\ LET called == [fnOut EXCEPT !.tasks[t].calls = Append(@, client)] IN
       fnOut' = IF outcome = "ok"
                THEN [called EXCEPT !.tasks[t].pc = "parsing"]
                ELSE [called EXCEPT !.tasks[t].pc = "raised", !.tasks[t].error = "provider",
                                    !.completed = Append(@, t)]
    /\ UNCHANGED <<pipeVars, chunkVars, fnIn, retry>>

\* json.loads of the content (lines 233, 395)
ParseContent(t, parsed) ==
    /\ fnIn.fn = "_generate_ai_content_parallel"
    /\ fnOut.tasks[t].pc = "parsing"
    /\ fnOut' = IF parsed THEN TaskEnds(t, "returned", "none")
                ELSE TaskEnds(t, "raised", "json")
    /\ UNCHANGED <<pipeVars, chunkVars, fnIn, retry>>

\* the first failed task in completion order, "none" when there is none
first_failed(completed, tasks) ==
    LET failed == SelectSeq(completed, LAMBDA t : tasks[t].pc = "raised")
    IN IF failed = <<>> THEN "none" ELSE failed[1]

\* lines 484-500: the as_completed loop raises on the first failed task it
\* meets, and the pool is left only when both tasks have ended
JoinTasks ==
    /\ fnIn.fn = "_generate_ai_content_parallel"
    /\ ~fnOut.done
    /\ \A t \in TaskNames : fnOut.tasks[t].pc \in {"returned", "raised"}
    /\ fnOut' = [fnOut EXCEPT !.done = TRUE,
                              !.failed_task = first_failed(fnOut.completed, fnOut.tasks),
                              !.value = IF JoinReturns(
                                             IF fnOut.tasks["chapters"].pc = "returned"
                                             THEN "ok" ELSE "failed",
                                             IF fnOut.tasks["structured"].pc = "returned"
                                             THEN "ok" ELSE "failed")
                                        THEN "results" ELSE "AINotesServiceError"]
    /\ UNCHANGED <<pipeVars, chunkVars, fnIn, retry>>

NextGenerate ==
    \/ \E t \in TaskNames : StartTask(t)
    \/ \E t \in TaskNames, outcome \in {"ok", "provider_error"} : CallClient(t, outcome)
    \/ \E t \in TaskNames, parsed \in BOOLEAN : ParseContent(t, parsed)
    \/ JoinTasks

SpecGenerate == InitGenerate /\ [][NextGenerate]_vars

\* ------------------------------------------------------------------ C26
\* C26: a generation task that fails with a provider error has by then called
\* two different providers, the primary and then the fallback, once each; no
\* task calls a provider twice; a task whose first call succeeded made no
\* second call
C26_ProviderErrorRetriedOnceViaFallback ==
    \A t \in TaskNames :
        LET k == fnOut.tasks[t] IN
        /\ (k.pc = "raised" /\ k.error = "provider")
              => Len(k.calls) = 2 /\ k.calls[1] # k.calls[2]
        /\ \A a \in 1..Len(k.calls), b \in 1..Len(k.calls) : a # b => k.calls[a] # k.calls[b]
        /\ k.pc \in {"parsing", "returned"} => Len(k.calls) = 1

\* =========================================================================
\* AINotesService.transliterate_to_english (ai_notes_service.py)
\* =========================================================================
BATCH_SIZE == 100
MAX_PARALLEL == 4
\* the numbers of segments tried: none, one batch, and up to five batches, one
\* more than the pool runs at a time
TranslitLengths == {0, 1, 101, 250, 450}
SourceLanguages == {"en", "hi"}
\* what the completion call of a batch gives: a numbered list with every line,
\* one without its first line, or an exception
Responses == {"all_lines", "line_one_missing", "raises"}
SourceSegments(n) == [i \in 1..n |-> [text |-> "source", start |-> i, duration |-> 1]]

\* range(0, len(segments), BATCH_SIZE)
batch_starts(n) == [k \in 1..((n + BATCH_SIZE - 1) \div BATCH_SIZE) |-> (k - 1) * BATCH_SIZE]
\* segments[batch_start:batch_start + BATCH_SIZE]
batch_at(segments, batch_start) ==
    SubSeq(segments, batch_start + 1, Min(batch_start + BATCH_SIZE, Len(segments)))

\* process_batch lines 475-552: a line found keeps the converted text, a line
\* not found and every line of a failed call keep the original text
process_batch(batch, response) ==
    [i \in 1..Len(batch) |->
        [text |-> IF response = "raises" \/ (response = "line_one_missing" /\ i = 1)
                  THEN batch[i].text ELSE "english",
         start |-> batch[i].start,
         duration |-> batch[i].duration]]

RECURSIVE extend_all(_, _)
extend_all(results_map, order) ==
    IF order = <<>> THEN <<>>
    ELSE results_map[Head(order)] \o extend_all(results_map, Tail(order))

\* lines 566-570: the results in the order of the batches
\* variant: the results in the order the batches completed
reassemble_as_completed(results_map, collected, n) == extend_all(results_map, collected)
reassemble(results_map, collected, n) ==
    extend_all(results_map,
               SelectSeq(batch_starts(n), LAMBDA batch_start : batch_start \in DOMAIN results_map))

TranslitStart == [done |-> FALSE, stage |-> "called"]

InitTranslit ==
    /\ InitPipeline
    /\ InitUsers
    /\ InitChunkIdle
    /\ InitRetryIdle
    /\ fnIn \in {[fn |-> "transliterate_to_english", segments |-> SourceSegments(n),
                  source_language |-> l] : n \in TranslitLengths, l \in SourceLanguages}
    /\ fnOut = TranslitStart

\* lines 454-472 and 558-559: the early returns, or the batches are made and
\* submitted to the pool
SubmitBatches ==
    /\ fnIn.fn = "transliterate_to_english"
    /\ ~fnOut.done /\ fnOut.stage = "called"
    /\ fnOut' = IF fnIn.segments = <<>>
                THEN [done |-> TRUE, stage |-> "returned", segments |-> <<>>,
                      was_transliterated |-> FALSE]
                ELSE IF fnIn.source_language = "en"
                THEN [done |-> TRUE, stage |-> "returned", segments |-> fnIn.segments,
                      was_transliterated |-> FALSE]
                ELSE LET starts == {batch_starts(Len(fnIn.segments))[k] :
                                        k \in 1..Len(batch_starts(Len(fnIn.segments)))}
                     IN [done |-> FALSE, stage |-> "pool",
                         pc |-> [b \in starts |-> "queued"],
                         response |-> [b \in starts |-> "none"],
                         results_map |-> <<>>,
                         collected |-> <<>>]
    /\ UNCHANGED <<fnIn, pipeVars, chunkVars, retry>>

\* a free worker of the pool takes the batch submitted first among those waiting
StartBatch(b) ==
    /\ fnIn.fn = "transliterate_to_english"
    /\ ~fnOut.done /\ fnOut.stage = "pool"
    /\ b \in DOMAIN fnOut.pc
    /\ fnOut.pc[b] = "queued"
    /\ \A c \in DOMAIN fnOut.pc : fnOut.pc[c] = "queued" => b <= c
    /\ Cardinality({c \in DOMAIN fnOut.pc : fnOut.pc[c] = "running"}) < MAX_PARALLEL
    /\ fnOut' = [fnOut EXCEPT !.pc[b] = "running"]
    /\ UNCHANGED <<fnIn, pipeVars, chunkVars, retry>>

\* process_batch returns (batch_idx, batch_results, tokens) and the
\* as_completed loop, lines 561-564, stores the results under batch_idx
CompleteBatch(b, response) ==
    /\ fnIn.fn = "transliterate_to_english"
    /\ ~fnOut.done /\ fnOut.stage = "pool"
    /\ b \in DOMAIN fnOut.pc
    /\ fnOut.pc[b] = "running"
    /\ fnOut' = [fnOut EXCEPT !.pc[b] = "collected",
                              !.response[b] = response,
                              !.results_map = [c \in DOMAIN @ \cup {b} |->
                                                  IF c = b
                                                  THEN process_batch(batch_at(fnIn.segments, b),
                                                                     response)
                                                  ELSE @[c]],
                              !.collected = Append(@, b)]
    /\ UNCHANGED <<fnIn, pipeVars, chunkVars, retry>>

\* lines 566-583: every batch is in, the segments are put together and returned
ReturnConverted ==
    /\ fnIn.fn = "transliterate_to_english"
    /\ ~fnOut.done /\ fnOut.stage = "pool"
    /\ \A b \in DOMAIN fnOut.pc : fnOut.pc[b] = "collected"
    /\ fnOut' = [done |-> TRUE, stage |-> "returned",
                 segments |-> reassemble(fnOut.results_map, fnOut.collected,
                                         Len(fnIn.segments)),
                 was_transliterated |-> TRUE,
                 response |-> fnOut.response,
                 collected |-> fnOut.collected]
    /\ UNCHANGED <<fnIn, pipeVars, chunkVars, retry>>

NextTranslit ==
    \/ SubmitBatches
    \/ \E b \in 0..Len(fnIn.segments) : StartBatch(b)
    \/ \E b \in 0..Len(fnIn.segments), response \in Responses : CompleteBatch(b, response)
    \/ ReturnConverted

SpecTranslit == InitTranslit /\ [][NextTranslit]_vars

\* ------------------------------------------------------------------ C39
\* the batch a segment falls into
BatchOf(i) == ((i - 1) \div 100) * 100

\* C39: transliterate_to_english returns one segment per input segment, in
\* input order, each with the start and duration of its input segment,
\* whatever the order in which the batches completed, and the segments of a
\* batch whose call failed keep their text
C39_OneSegmentPerInputInOrder ==
    (fnOut.done /\ fnOut.stage = "returned") =>
        /\ Len(fnOut.segments) = Len(fnIn.segments)
        /\ \A i \in 1..Len(fnIn.segments) :
              /\ fnOut.segments[i].start = fnIn.segments[i].start
              /\ fnOut.segments[i].duration = fnIn.segments[i].duration
              /\ (fnOut.was_transliterated /\ fnOut.response[BatchOf(i)] = "raises")
                    => fnOut.segments[i].text = fnIn.segments[i].text
              /\ (fnOut.was_transliterated /\ fnOut.response[BatchOf(i)] = "all_lines")
                    => fnOut.segments[i].text = "english"

\* C39 witness: five batches, of which a later one completed before an
\* earlier one, one failed and one succeeded
C39_Witness ==
    /\ fnOut.done /\ fnOut.stage = "returned"
    /\ fnOut.was_transliterated
    /\ Len(fnOut.collected) = 5
    /\ \E k \in 1..4 : fnOut.collected[k] > fnOut.collected[k + 1]
    /\ \E b \in DOMAIN fnOut.response : fnOut.response[b] = "raises"
    /\ \E b \in DOMAIN fnOut.response : fnOut.response[b] = "all_lines"
    /\ Len(fnOut.segments) = 450

\* ------------------------------------------------------------------ C38
\* C38: when the input is not empty and every generation call a task makes
\* succeeds and parses, _generate_ai_content_parallel returns both results,
\* for every content duration, those above 600 s included
C38_GenerationSucceedsForEveryDuration ==
    (/\ fnOut.done
     /\ fnIn.segments
     /\ \A t \in TaskNames : fnOut.tasks[t].error \notin {"provider", "json"})
        => /\ fnOut.value = "results"
           /\ fnOut.failed_task = "none"

\* ------------------------------------------------------------------ C20
\* C20: a run calls the transcript fetcher only when the raw-fetch cache
\* holds no entry for its sourceId: with an entry present the fetch step
\* takes the cached data, cannot fail with a fetch error and stores nothing;
\* with no entry a successful fetch stores the result under
\* transcript:<sourceId> with a time to live of 24 hours and a failed fetch
\* stores nothing. The cache holds no other keys.
C20_FetchOnlyOnCacheMiss ==
    /\ [](DOMAIN redis = {<<"transcript", s>> : s \in Sources})
    /\ [][\A r \in RunIds :
            (runs[r].pc = "fetch" /\ runs'[r] # runs[r]) =>
                LET k == <<"transcript", runs[r].src>> IN
                IF redis[k] # 0
                THEN /\ runs'[r].pc = "from_cache"
                     /\ redis' = redis
                ELSE \/ /\ runs'[r].pc = "from_youtube"
                        /\ redis' = [redis EXCEPT ![k] = 24 * 60 * 60]
                     \/ /\ runs'[r].pc = "h_job"
                        /\ runs'[r].err = "youtube"
                        /\ redis' = redis]_vars

\* a second run of a source took the entry the first run had stored
C20_Witness ==
    \E r, q \in RunIds :
        /\ r # q
        /\ runs[r].pc = "from_cache"
        /\ runs[q].pc \notin {"none", "fetch", "set_fetching"}
        /\ redis[<<"transcript", runs[r].src>>] = 24 * 60 * 60

====
